---- MODULE Spec2Model ----
(***************************************************************************)
(* A model of the playground orchestration engine: the topology planner   *)
(* (core::generate), the deployer and teardown (core::deploy,             *)
(* core::cleanup) run by the agent's worker thread together with the      *)
(* process supervisor (supervisor::launch / stop), and the partition      *)
(* agent (partition::Background).                                         *)
(*                                                                         *)
(* Maps keyed by usize (BTreeMap) are functions over 0-based index sets;   *)
(* Option<String> is the string "None" or an opaque option string.         *)
(***************************************************************************)
EXTENDS Integers, Sequences, FiniteSets, TLC

\* ------------------------------------------------------------------ bounds
MaxInstances == 3
MaxHosts == 2
MaxPerBridge == 2
MaxPool == 6
MaxQdisc == 2
MaxCommands == 2
MaxPartInstances == 3
MaxBuckets == 3
MaxCycles == 2
MaxEnvInstances == 2
MaxSweepBridges == 3
MaxTokens == 6
MaxCalls == 3
MaxActorTasks == 2
MaxTime == 3
MaxRequests == 6

None == "None"

\* ------------------------------------------------------------ variables
VARIABLES
    \* planner (core::generate)
    gin,        \* the inputs of one planner invocation
    gout,       \* its result; status "none" before the call
    \* worker thread (playagent spawn_worker) and what it acts on
    conf,       \* core::Config
    data,       \* core::Data: the plan with a State per entry
    commands,   \* playagent::Data.commands: index -> CommandConfig
    wpc,        \* position of the worker thread in spawn_worker
    kernel,     \* kernel objects that exist, <<kind, a, b>>
    master,     \* link -> index of the bridge it is enslaved to
    running,    \* spawn_worker's map index -> Execution
    procs,      \* child processes: index -> their state
    readers,    \* reader threads: <<index, stream>> -> their state
    bus,        \* error bus: number of queued messages
    interrupt,  \* interrupt channel: "none", "sent" or "taken"
    results,    \* number of errors spawn_worker has collected
    hist,       \* calls and kernel verbs issued so far, in order
    \* partition agent (partition::Background) and the thread that stops it
    task,       \* partition::Task: partition, instances, enabled
    rules,      \* installed DROP rules: <<from, to>> -> how many
    ppc,        \* position of the agent thread
    sender,     \* stop channel: "none", "sent" or "taken"
    stopper,    \* position of the thread calling Background::stop
    cycles,     \* number of apply() calls so far
    plog,       \* the apply() and revert() calls of the agent and their results
    \* environment of the library (Env) and what Env::run acts on
    env,        \* Env: revert, bridge, namespaces, veth, qdisc, tasks, partition, next
    epool,      \* Env.hosts: number of addresses left
    epc,        \* position of the caller in Env::run
    ekernel,    \* kernel objects that exist
    ecreated,   \* kernel objects created so far
    eprocs,     \* processes of the tasks: index -> their state
    epart,      \* partition agent of the environment: "none", "running", "stopped"
    erst,       \* what Env::run returned: "none", "ok" or "err"
    ehist,      \* stops and reverts issued by Env::run, in order
    \* prefix sweep (shell::namespace_cleanup, bridge_cleanup, veth_cleanup)
    sprefix,    \* the prefix argument, a string as a sequence of characters
    skernel,    \* root namespace: named namespaces and links, in listing order
    sres,       \* sweep function -> "none", "ok" or "err"
    slisted,    \* sweep function -> the names it was given by its listing
    sgone,      \* names of the objects that left the kernel during the sweeps
    slog,       \* delete commands issued so far, in order
    \* partition description parser (Partition::parse)
    pin,        \* the input, split at whitespace
    pout,       \* what parse returned; status "none" before the call
    \* kernel parameters (sysctl)
    sysctls,    \* name -> current value, a string
    \* shutdown actor of the library (ActorState) and the tasks it shares
    \* with Env::run
    now,        \* Instant::now(), in whole time units
    aqueue,     \* channel to the actor: ShutdownTasks sent and not yet received
    to_pause,   \* MinInstantHeap of the tasks to stop, a set of entries
    to_start,   \* MinInstantHeap of the tasks to start, a set of entries
    apc,        \* position of the actor thread: "wait", "pause", "start"
    anow,       \* the `now` local of pause_tasks / start_tasks
    tproc,      \* Task of each spawned index: process is Some, live processes
    rpc,        \* position of Env::run: "body", "stop_tasks", "done"
    tasks,      \* Env.tasks: the indexes in the map
    alast,      \* the heap the actor took its last entry from, and the timestamp
                \* of the last entry it took from each heap
    \* the agent's HTTP handlers (AppState) and the worker threads they spawn
    worker,     \* Worker: handle (0 for None, else a thread), interrupt, failure
    state_data, \* AppState.data: the plan that is stored, an opaque id
    threads,    \* the worker threads spawned so far, in order
    resp,       \* the last response: <<handler, status code, WorkerStatus>>
    nreq        \* number of requests served

varsPlan == <<gin, gout>>
varsWorker == <<conf, data, commands, wpc, kernel, master, running, procs,
                readers, bus, interrupt, results, hist>>
varsPart == <<task, rules, ppc, sender, stopper, cycles, plog>>
varsEnv == <<env, epool, epc, ekernel, ecreated, eprocs, epart, erst, ehist>>
varsSweep == <<sprefix, skernel, sres, slisted, sgone, slog>>
varsParse == <<pin, pout>>
varsSys == <<sysctls>>
varsActor == <<now, aqueue, to_pause, to_start, apc, anow, tproc, rpc, tasks, alast>>
varsAgent == <<worker, state_data, threads, resp, nreq>>
vars == <<varsPlan, varsWorker, varsPart, varsEnv, varsSweep, varsParse, varsSys,
          varsActor, varsAgent>>

\* what the steps of one component leave alone: the other components
OtherThanPlan == <<varsWorker, varsPart, varsEnv, varsSweep, varsParse, varsSys,
    varsActor, varsAgent>>
OtherThanWorker == <<varsPlan, varsPart, varsEnv, varsSweep, varsParse, varsSys,
    varsActor, varsAgent>>
OtherThanPart == <<varsPlan, varsWorker, varsEnv, varsSweep, varsParse, varsSys,
    varsActor, varsAgent>>
OtherThanEnv == <<varsPlan, varsWorker, varsPart, varsSweep, varsParse, varsSys,
    varsActor, varsAgent>>
OtherThanSweep == <<varsPlan, varsWorker, varsPart, varsEnv, varsParse, varsSys,
    varsActor, varsAgent>>
OtherThanActor == <<varsPlan, varsWorker, varsPart, varsEnv, varsSweep, varsParse,
    varsSys, varsAgent>>
OtherThanAgent == <<varsPlan, varsWorker, varsPart, varsEnv, varsSweep, varsParse,
    varsSys, varsActor>>
OtherThanParse == <<varsPlan, varsWorker, varsPart, varsEnv, varsSweep, varsSys,
    varsActor, varsAgent>>

\* ------------------------------------------------------------- helpers
Range(f) == {f[x] : x \in DOMAIN f}

EmptyMap == [x \in {} |-> 0]

\* BTreeMap::insert
Insert(m, k, v) == [x \in DOMAIN m \cup {k} |-> IF x = k THEN v ELSE m[x]]

Pending == "Pending"
Deployed == "Deployed"

\* Data::new
DataNew == [vxlan |-> EmptyMap, bridges |-> EmptyMap, veth |-> EmptyMap,
            qdisc |-> EmptyMap]

\* ------------------------------------------------------------- planner
\* An address pool (IpAddrRange): the addresses next .. end-1 are left.
Pool(size) == [next |-> 1, end |-> size + 1]

\* next_addr on a pool that does not advance (a fault C9_AddressesDistinct
\* must detect)
next_addr_Stuck(pool) ==
    IF pool.next < pool.end
    THEN [ok |-> TRUE, addr |-> pool.next, pool |-> pool]
    ELSE [ok |-> FALSE, addr |-> 0, pool |-> pool]

\* next_addr: the next address of the pool, which advances; an error when
\* the pool is exhausted.
next_addr(pool) ==
    IF pool.next < pool.end
    THEN [ok |-> TRUE, addr |-> pool.next, pool |-> [pool EXCEPT !.next = @ + 1]]
    ELSE [ok |-> FALSE, addr |-> 0, pool |-> pool]

\* Iterator::next on the qdisc stream (a sequence of <<tbf, netem>>).
qdisc_next(q) ==
    IF Len(q) > 0
    THEN [some |-> TRUE, item |-> Head(q), rest |-> Tail(q)]
    ELSE [some |-> FALSE, item |-> <<None, None>>, rest |-> q]

\* the bridges counted without the one that is not full (a fault
\* C8_BridgeOfInstance must detect)
BridgeCount_Floor(cfg, n) == n \div cfg.per_bridge

\* number of bridges for n instances
BridgeCount(cfg, n) ==
    IF n % cfg.per_bridge = 0 THEN n \div cfg.per_bridge
    ELSE (n \div cfg.per_bridge) + 1

\* the loop `for index in 0..bridges` of generate_one
RECURSIVE BridgeLoop(_, _, _, _)
BridgeLoop(index, bridges, d, pool) ==
    IF index >= bridges THEN [ok |-> TRUE, data |-> d, pool |-> pool]
    ELSE LET a == next_addr(pool) IN
         IF ~a.ok THEN [ok |-> FALSE, data |-> d, pool |-> a.pool]
         ELSE BridgeLoop(index + 1, bridges,
                [d EXCEPT !.bridges = Insert(@, index,
                    [bridge |-> [index |-> index, addr |-> a.addr],
                     state |-> Pending])],
                a.pool)

\* the loop `for index in 0..n` of generate_one
RECURSIVE VethLoop(_, _, _, _, _)
VethLoop(index, n, d, pool, q) ==
    IF index >= n THEN [ok |-> TRUE, data |-> d, pool |-> pool, qdisc |-> q]
    ELSE LET a == next_addr(pool) IN
         IF ~a.ok THEN [ok |-> FALSE, data |-> d, pool |-> a.pool, qdisc |-> q]
         ELSE LET qn == qdisc_next(q)
                  d1 == [d EXCEPT !.veth = Insert(@, index,
                            [veth |-> [addr |-> a.addr, namespace |-> index],
                             state |-> Pending])]
                  d2 == IF qn.some
                        THEN [d1 EXCEPT !.qdisc = Insert(@, index,
                                [qdisc |-> [tbf |-> qn.item[1], netem |-> qn.item[2]],
                                 state |-> Pending])]
                        ELSE d1
              IN VethLoop(index + 1, n, d2, a.pool, qn.rest)

\* generate_one: the plan of one host with n instances.  hosts is the list
\* of all hosts (a function over 0 .. H-1).
generate_one(cfg, n, hosts, pool, q) ==
    IF cfg.per_bridge = 0
    THEN [status |-> "panic", data |-> DataNew, pool |-> pool, qdisc |-> q]
    ELSE
    LET b == BridgeLoop(0, BridgeCount(cfg, n), DataNew, pool) IN
    IF ~b.ok THEN [status |-> "err", data |-> DataNew, pool |-> b.pool, qdisc |-> q]
    ELSE
    LET d1 == IF Cardinality(DOMAIN hosts) > 1
              THEN [b.data EXCEPT !.vxlan = Insert(@, 0,
                      [vxlan |-> [id |-> cfg.vxlan_id, port |-> cfg.vxlan_port,
                                  group |-> cfg.vxlan_multicast_group,
                                  device |-> hosts[0].vxlan_device],
                       state |-> Pending])]
              ELSE b.data
        v == VethLoop(0, n, d1, b.pool, q)
    IN IF ~v.ok
       THEN [status |-> "err", data |-> DataNew, pool |-> v.pool, qdisc |-> v.qdisc]
       ELSE [status |-> "ok", data |-> v.data, pool |-> v.pool, qdisc |-> v.qdisc]

\* the chunks without the remainder on host 0 (a fault C10_PlanShape must
\* detect)
Chunk_NoRemainder(n, H, index) == n \div H

\* the chunk of host `index`
Chunk(n, H, index) ==
    IF index = 0 THEN (n \div H) + (n % H) ELSE n \div H

\* a collect() that keeps the plans made before the first error (a fault
\* C14_ExhaustedPoolNoPlan must detect)
RECURSIVE GenerateLoop_Truncated(_, _, _, _, _, _, _)
GenerateLoop_Truncated(cfg, n, hosts, index, pool, q, acc) ==
    IF index >= Cardinality(DOMAIN hosts)
    THEN [status |-> "ok", plans |-> acc, pool |-> pool]
    ELSE LET r == generate_one(cfg, IF index = 0
                                    THEN (n \div Cardinality(DOMAIN hosts))
                                         + (n % Cardinality(DOMAIN hosts))
                                    ELSE n \div Cardinality(DOMAIN hosts),
                               hosts, pool, q)
         IN IF r.status # "ok"
            THEN [status |-> "ok", plans |-> acc, pool |-> r.pool]
            ELSE GenerateLoop_Truncated(cfg, n, hosts, index + 1, r.pool,
                                        r.qdisc, Append(acc, r.data))

\* the map(...).collect() of generate: one generate_one per host, in order,
\* stopping at the first error
RECURSIVE GenerateLoop(_, _, _, _, _, _, _)
GenerateLoop(cfg, n, hosts, index, pool, q, acc) ==
    IF index >= Cardinality(DOMAIN hosts)
    THEN [status |-> "ok", plans |-> acc, pool |-> pool]
    ELSE LET r == generate_one(cfg, Chunk(n, Cardinality(DOMAIN hosts), index),
                               hosts, pool, q)
         IN IF r.status # "ok"
            THEN [status |-> r.status, plans |-> <<>>, pool |-> r.pool]
            ELSE GenerateLoop(cfg, n, hosts, index + 1, r.pool, r.qdisc,
                              Append(acc, r.data))

\* generate: the plans of all hosts (a sequence, host 0 first), or an error
generate(cfg, n, hosts, pool, q) ==
    IF Cardinality(DOMAIN hosts) = 0
    THEN [status |-> "err", plans |-> <<>>, pool |-> pool]
    ELSE GenerateLoop(cfg, n, hosts, 0, pool, q, <<>>)

\* tests::hosts, with one carrier device per host
Hosts(H) == [h \in 0 .. H - 1 |-> [name |-> h, vxlan_device |-> h]]

\* tests::test_config
Config(pb) == [per_bridge |-> pb, vxlan_id |-> 100, vxlan_port |-> 4789,
               vxlan_multicast_group |-> "239.1.1.1"]

QdiscItems == {<<None, None>>, <<"rate", "delay">>}

QdiscStreams == UNION {[1 .. k -> QdiscItems] : k \in 0 .. MaxQdisc}

\* the largest number of ports of a bridge (doc comment of Data.bridges)
PerBridgeLimit == 1000

\* the per_bridge values planned with: none, a few, and one over the limit
PerBridgeMenu == 0 .. MaxPerBridge \cup {PerBridgeLimit + 1}

PlanInputs ==
    [n : 0 .. MaxInstances, hosts : 0 .. MaxHosts, per_bridge : PerBridgeMenu,
     pool : 0 .. MaxPool, qdisc : QdiscStreams]

GoutNone == [status |-> "none", plans |-> <<>>, pool |-> Pool(0)]

InitPlan == gin \in PlanInputs /\ gout = GoutNone

\* one planner invocation
Generate ==
    /\ gout.status = "none"
    /\ gout' = generate(Config(gin.per_bridge), gin.n, Hosts(gin.hosts),
                        Pool(gin.pool), gin.qdisc)
    /\ UNCHANGED <<gin, OtherThanPlan>>

NextPlan == Generate

\* ------------------------------------------------------ kernel verbs
\* Kernel objects are <<kind, a, b>>: a namespace <<"ns", i, 0>>, a bridge
\* <<"br", b, 0>>, the host and guest ends of instance i's veth pair
\* <<"vh", i, 0>> and <<"vg", i, 0>>, the two ends of the connector of
\* bridges i and j <<"c0", i, j>> and <<"c1", i, j>>, the vxlan device
\* <<"vx", 0, 0>> and a qdisc on instance i's guest end <<"qd", i, k>>
\* (k = 1 for tbf, 2 for netem).
Ns(i) == <<"ns", i, 0>>
Br(b) == <<"br", b, 0>>
Vh(i) == <<"vh", i, 0>>
Vg(i) == <<"vg", i, 0>>
C0(i, j) == <<"c0", i, j>>
C1(i, j) == <<"c1", i, j>>
Vx == <<"vx", 0, 0>>
Qd(i, k) == <<"qd", i, k>>

\* the keys of a BTreeMap in iteration (ascending) order
RECURSIVE SortedKeys(_)
SortedKeys(S) ==
    IF S = {} THEN <<>>
    ELSE LET m == CHOOSE x \in S : \A y \in S : x <= y
         IN <<m>> \o SortedKeys(S \ {m})

RECURSIVE Concat(_)
Concat(ss) == IF Len(ss) = 0 THEN <<>> ELSE Head(ss) \o Concat(Tail(ss))

\* what is left of the kernel when a link is deleted: a veth end goes with
\* its peer and its qdiscs, a bridge leaves its ports in place
DelLink(k, l) ==
    CASE l[1] \in {"vh", "vg"} ->
            k \ ({Vh(l[2]), Vg(l[2])} \cup {Qd(l[2], 1), Qd(l[2], 2)})
      [] l[1] \in {"c0", "c1"} -> k \ {C0(l[2], l[3]), C1(l[2], l[3])}
      [] OTHER -> k \ {l}

\* the enslavements left when the kernel shrinks to k and bridge b (if any)
\* is deleted
Unmaster(m, k, b) ==
    [l \in {x \in DOMAIN m : x \in k /\ m[x] # b} |-> m[l]]

\* the bridge of an instance (deploy: index / cfg.per_bridge)
BridgeOf(c, index) == index \div c.per_bridge

\* the pairs without the last one (a fault C4_Chain must detect)
ConnectPairs_DropLast(bridges) ==
    LET ks == SortedKeys(DOMAIN bridges)
    IN [p \in 1 .. Len(ks) - 2 |-> <<ks[p], ks[p + 1]>>]

\* the pairs of bridges deploy connects: data.bridges.values() zipped with
\* itself advanced by one
ConnectPairs(bridges) ==
    LET ks == SortedKeys(DOMAIN bridges)
    IN [p \in 1 .. Len(ks) - 1 |-> <<ks[p], ks[p + 1]>>]

\* deploy with the bridges taken in descending index and the vxlan before
\* the connectors (a fault C22_DeployStageOrder must detect)
DeployOps_Descending(c, d) ==
    LET up == SortedKeys({b \in DOMAIN d.bridges : d.bridges[b].state = Pending})
        bks == [p \in 1 .. Len(up) |-> up[Len(up) + 1 - p]]
        pairs == ConnectPairs(d.bridges)
        xks == SortedKeys({x \in DOMAIN d.vxlan : d.vxlan[x].state = Pending})
        vks == SortedKeys(DOMAIN d.veth)
        first == SortedKeys(DOMAIN d.bridges)
        vethOps(i) ==
            (IF d.veth[i].state = Pending
             THEN <<<<"namespace_apply", i, 0>>,
                    IF BridgeOf(c, i) \in DOMAIN d.bridges
                    THEN <<"veth_apply", i, BridgeOf(c, i)>>
                    ELSE <<"no_bridge", i, 0>>>>
             ELSE <<>>)
            \o (IF i \in DOMAIN d.qdisc /\ d.qdisc[i].state = Pending
                THEN <<<<"qdisc_apply", i, 0>>>> ELSE <<>>)
    IN [p \in 1 .. Len(bks) |-> <<"bridge_apply", bks[p], 0>>]
       \o [p \in 1 .. Len(xks) |->
             IF Len(first) = 0 THEN <<"no_bridges", 0, 0>>
             ELSE <<"vxlan_apply", xks[p], first[1]>>]
       \o [p \in 1 .. Len(pairs) |-> <<"bridge_connnect", pairs[p][1], pairs[p][2]>>]
       \o Concat([p \in 1 .. Len(vks) |-> vethOps(vks[p])])

\* The kernel verbs deploy issues on d, in order, when none of them fails:
\* <<verb, a, b>>.
DeployOps(c, d) ==
    LET bks == SortedKeys({b \in DOMAIN d.bridges : d.bridges[b].state = Pending})
        pairs == ConnectPairs(d.bridges)
        xks == SortedKeys({x \in DOMAIN d.vxlan : d.vxlan[x].state = Pending})
        vks == SortedKeys(DOMAIN d.veth)
        first == SortedKeys(DOMAIN d.bridges)
        vethOps(i) ==
            (IF d.veth[i].state = Pending
             THEN <<<<"namespace_apply", i, 0>>,
                    IF BridgeOf(c, i) \in DOMAIN d.bridges
                    THEN <<"veth_apply", i, BridgeOf(c, i)>>
                    ELSE <<"no_bridge", i, 0>>>>
             ELSE <<>>)
            \o (IF i \in DOMAIN d.qdisc /\ d.qdisc[i].state = Pending
                THEN <<<<"qdisc_apply", i, 0>>>> ELSE <<>>)
    IN [p \in 1 .. Len(bks) |-> <<"bridge_apply", bks[p], 0>>]
       \o [p \in 1 .. Len(pairs) |-> <<"bridge_connnect", pairs[p][1], pairs[p][2]>>]
       \o [p \in 1 .. Len(xks) |->
             IF Len(first) = 0 THEN <<"no_bridges", 0, 0>>
             ELSE <<"vxlan_apply", xks[p], first[1]>>]
       \o Concat([p \in 1 .. Len(vks) |-> vethOps(vks[p])])

\* A forward verb fails whatever the environment does: the object it
\* creates exists already, or an object it needs is missing.
Forced(op, st) ==
    CASE op[1] = "bridge_apply" -> Br(op[2]) \in st.kernel
      [] op[1] = "bridge_connnect" ->
            \/ C0(op[2], op[3]) \in st.kernel \/ C1(op[2], op[3]) \in st.kernel
            \/ Br(op[2]) \notin st.kernel \/ Br(op[3]) \notin st.kernel
      [] op[1] = "vxlan_apply" -> Vx \in st.kernel \/ Br(op[3]) \notin st.kernel
      [] op[1] = "namespace_apply" -> Ns(op[2]) \in st.kernel
      [] op[1] = "veth_apply" ->
            \/ Vh(op[2]) \in st.kernel \/ Ns(op[2]) \notin st.kernel
            \/ Br(op[3]) \notin st.kernel
      [] op[1] = "qdisc_apply" ->
            LET q == st.data.qdisc[op[2]].qdisc IN
            /\ q.tbf # None \/ q.netem # None
            /\ \/ Vg(op[2]) \notin st.kernel
               \/ Qd(op[2], 1) \in st.kernel \/ Qd(op[2], 2) \in st.kernel
      [] OTHER -> TRUE

\* a forward verb that runs no command cannot fail: qdisc_apply with
\* neither tbf nor netem
CanFail(op, st) ==
    op[1] = "qdisc_apply" =>
        LET q == st.data.qdisc[op[2]].qdisc IN q.tbf # None \/ q.netem # None

\* a status update that also adds an entry to the plan (a fault
\* C15_PlanImmutable must detect)
SetState_AddsEntry(d, field, k, s) ==
    [d EXCEPT ![field] = Insert([@ EXCEPT ![k].state = s], k + 100, @[k])]

SetState(d, field, k, s) == [d EXCEPT ![field][k].state = s]

\* the log of a verb and its result: "ok", "err", or "absent" for a revert
\* that fails because its object does not exist
Log(st, op, res) == Append(st.hist, <<op[1], op[2], op[3], res>>)

\* a forward verb succeeds, and deploy marks the entry Deployed
Applied(op, st) ==
    LET h == Log(st, op, "ok") IN
    CASE op[1] = "bridge_apply" ->
            [st EXCEPT !.kernel = @ \cup {Br(op[2])},
                       !.data = SetState(@, "bridges", op[2], Deployed),
                       !.hist = h]
      [] op[1] = "bridge_connnect" ->
            [st EXCEPT !.kernel = @ \cup {C0(op[2], op[3]), C1(op[2], op[3])},
                       !.master = Insert(Insert(@, C0(op[2], op[3]), op[2]),
                                         C1(op[2], op[3]), op[3]),
                       !.hist = h]
      [] op[1] = "vxlan_apply" ->
            [st EXCEPT !.kernel = @ \cup {Vx},
                       !.master = Insert(@, Vx, op[3]),
                       !.data = SetState(@, "vxlan", op[2], Deployed),
                       !.hist = h]
      [] op[1] = "namespace_apply" ->
            [st EXCEPT !.kernel = @ \cup {Ns(op[2])}, !.hist = h]
      [] op[1] = "veth_apply" ->
            [st EXCEPT !.kernel = @ \cup {Vh(op[2]), Vg(op[2])},
                       !.master = Insert(@, Vh(op[2]), op[3]),
                       !.data = SetState(@, "veth", op[2], Deployed),
                       !.hist = h]
      [] op[1] = "qdisc_apply" ->
            LET q == st.data.qdisc[op[2]].qdisc IN
            [st EXCEPT !.kernel = @ \cup (IF q.tbf # None THEN {Qd(op[2], 1)} ELSE {})
                                    \cup (IF q.netem # None THEN {Qd(op[2], 2)} ELSE {}),
                       !.data = SetState(@, "qdisc", op[2], Deployed),
                       !.hist = h]

\* a forward verb fails after its first command has taken effect: the
\* object exists, the verb returns an error and the entry stays Pending
Partial(op, st) ==
    LET h == Log(st, op, "err") IN
    CASE op[1] = "bridge_apply" ->
            [st EXCEPT !.kernel = @ \cup {Br(op[2])}, !.hist = h, !.ok = FALSE]
      [] op[1] = "bridge_connnect" ->
            [st EXCEPT !.kernel = @ \cup {C0(op[2], op[3]), C1(op[2], op[3])},
                       !.hist = h, !.ok = FALSE]
      [] op[1] = "vxlan_apply" ->
            [st EXCEPT !.kernel = @ \cup {Vx}, !.hist = h, !.ok = FALSE]
      [] op[1] = "namespace_apply" ->
            [st EXCEPT !.kernel = @ \cup {Ns(op[2])}, !.hist = h, !.ok = FALSE]
      [] op[1] = "veth_apply" ->
            [st EXCEPT !.kernel = @ \cup {Vh(op[2]), Vg(op[2])},
                       !.master = Insert(@, Vh(op[2]), op[3]),
                       !.hist = h, !.ok = FALSE]
      [] op[1] = "qdisc_apply" ->
            LET q == st.data.qdisc[op[2]].qdisc IN
            [st EXCEPT !.kernel = IF q.tbf # None /\ q.netem # None
                                  THEN @ \cup {Qd(op[2], 1)} ELSE @,
                       !.hist = h, !.ok = FALSE]

\* a failed verb whose entry is marked Deployed all the same (a fault
\* C23_DeployStopsAtFailure must detect)
Failed_MarksDeployed(op, st) ==
    IF op[1] \in {"bridge_apply", "vxlan_apply", "veth_apply", "qdisc_apply"}
    THEN [Applied(op, st) EXCEPT !.hist = Log(st, op, "err"), !.ok = FALSE]
    ELSE [st EXCEPT !.hist = Log(st, op, "err"), !.ok = FALSE]

\* a forward verb fails without effect
Failed(op, st) == [st EXCEPT !.hist = Log(st, op, "err"), !.ok = FALSE]

\* deploy's verbs from the p-th on; the failAt-th fails the way `mode` says
\* ("none": without effect, "partial": after its first command), and the
\* first failure ends the run (the `?` of deploy)
RECURSIVE RunDeploy(_, _, _, _, _)
RunDeploy(ops, p, failAt, mode, st) ==
    IF p > Len(ops) THEN st
    ELSE LET op == ops[p] IN
         IF Forced(op, st) THEN Failed(op, st)
         ELSE IF p = failAt /\ CanFail(op, st)
              THEN (IF mode = "partial" THEN Partial(op, st) ELSE Failed(op, st))
              ELSE RunDeploy(ops, p + 1, failAt, mode, Applied(op, st))

\* The revert verbs cleanup issues on d, in order; none ends the run.
RevertOps(d) ==
    LET vks == SortedKeys(DOMAIN d.veth)
        bks == SortedKeys(DOMAIN d.bridges)
        xks == SortedKeys(DOMAIN d.vxlan)
    IN [p \in 1 .. Len(vks) |-> <<"namespace_revert", vks[p], 0>>]
       \o [p \in 1 .. Len(bks) |-> <<"bridge_revert", bks[p], 0>>]
       \o [p \in 1 .. Len(xks) |-> <<"vxlan_revert", xks[p], 0>>]
       \o [p \in 1 .. Len(vks) |-> <<"veth_revert", vks[p], 0>>]

\* the object a revert verb deletes
Target(op) ==
    CASE op[1] = "namespace_revert" -> Ns(op[2])
      [] op[1] = "bridge_revert" -> Br(op[2])
      [] op[1] = "vxlan_revert" -> Vx
      [] op[1] = "veth_revert" -> Vh(op[2])

\* a revert verb succeeds
Reverted(op, st) ==
    LET h == Log(st, op, "ok") IN
    CASE op[1] = "namespace_revert" ->
            LET k == DelLink(st.kernel \ {Ns(op[2])}, Vg(op[2])) IN
            [st EXCEPT !.kernel = k, !.master = Unmaster(@, k, -1), !.hist = h]
      [] op[1] = "bridge_revert" ->
            LET k == DelLink(st.kernel, Br(op[2])) IN
            [st EXCEPT !.kernel = k, !.master = Unmaster(@, k, op[2]),
                       !.data = SetState(@, "bridges", op[2], Pending),
                       !.hist = h]
      [] op[1] = "vxlan_revert" ->
            LET k == DelLink(st.kernel, Vx) IN
            [st EXCEPT !.kernel = k, !.master = Unmaster(@, k, -1),
                       !.data = SetState(@, "vxlan", op[2], Pending),
                       !.hist = h]
      [] op[1] = "veth_revert" ->
            LET k == DelLink(st.kernel, Vh(op[2])) IN
            [st EXCEPT !.kernel = k, !.master = Unmaster(@, k, -1),
                       !.data = SetState(@, "veth", op[2], Pending),
                       !.hist = h]

\* one revert verb of cleanup: netlink::veth_revert of an absent link is a
\* success; any other verb fails on an absent object; on an object that
\* exists it fails if the environment says so (fails = TRUE)
RevertOne(op, fails, st) ==
    IF Target(op) \notin st.kernel
    THEN IF op[1] = "veth_revert"
         THEN [st EXCEPT !.data = SetState(@, "veth", op[2], Pending),
                         !.hist = Log(st, op, "ok")]
         ELSE [st EXCEPT !.hist = Log(st, op, "absent")]
    ELSE IF fails THEN [st EXCEPT !.hist = Log(st, op, "err")]
         ELSE Reverted(op, st)

\* a cleanup that returns at its first failed revert (a fault
\* C16_TeardownBestEffort must detect)
RECURSIVE RunCleanup_StopAtFailure(_, _, _, _)
RunCleanup_StopAtFailure(ops, p, failAt, st) ==
    IF p > Len(ops) THEN st
    ELSE LET next == RevertOne(ops[p], p = failAt, st) IN
         IF next.hist[Len(next.hist)][4] # "ok" THEN next
         ELSE RunCleanup_StopAtFailure(ops, p + 1, failAt, next)

\* cleanup's verbs from the p-th on; the failAt-th is failed by the
\* environment; a failure is logged and the run goes on
RECURSIVE RunCleanup(_, _, _, _)
RunCleanup(ops, p, failAt, st) ==
    IF p > Len(ops) THEN st
    ELSE RunCleanup(ops, p + 1, failAt, RevertOne(ops[p], p = failAt, st))

\* ------------------------------------------------------------- sysctl
SysctlNames ==
    {"net.bridge.bridge-nf-call-iptables", "net.ipv4.neigh.default.gc_thresh3",
     "net.ipv4.ip_forward"}

\* the values deploy is to establish
SysctlTarget ==
    [name \in SysctlNames |->
        CASE name = "net.bridge.bridge-nf-call-iptables" -> "0"
          [] name = "net.ipv4.neigh.default.gc_thresh3" -> "2048000"
          [] name = "net.ipv4.ip_forward" -> "1"]

\* the values of a kernel nobody has tuned
SysctlDefault ==
    [name \in SysctlNames |->
        CASE name = "net.bridge.bridge-nf-call-iptables" -> "1"
          [] name = "net.ipv4.neigh.default.gc_thresh3" -> "1024"
          [] name = "net.ipv4.ip_forward" -> "0"]

\* ensure_value: read the value, write it only when it differs
ensure_value(ctls, name, value) ==
    IF ctls[name] = value THEN ctls ELSE [ctls EXCEPT ![name] = value]

disable_bridge_nf_call_iptables(ctls) ==
    ensure_value(ctls, "net.bridge.bridge-nf-call-iptables", "0")

ipv4_neigh_gc_threash3(ctls, value) ==
    ensure_value(ctls, "net.ipv4.neigh.default.gc_thresh3", value)

\* the machine the worker starts on: each parameter is tuned already or not
InitSys ==
    sysctls \in {f \in [SysctlNames -> {"0", "1", "1024", "2048000"}] :
                    \A name \in SysctlNames :
                        f[name] \in {SysctlTarget[name], SysctlDefault[name]}}

IdleSys == sysctls = SysctlDefault

\* ------------------------------------------------------ worker thread
\* a call of spawn_worker, in the log
Call(name) == <<name, 0, 0, "call">>

\* its return, in the log
Ret(name, ok) == <<name, 0, 0, IF ok THEN "ok" ELSE "err">>

\* an event received by spawn_worker's select!, in the log
Recv(name) == <<name, 0, 0, "recv">>

\* spawn_worker returning without cleanup when deploy fails (a fault
\* C7_SelectStopTeardown must detect)
AfterDeploy_NoTeardown(ok) == IF ok THEN "launch" ELSE "done"

\* where spawn_worker goes after core::deploy
AfterDeploy(ok) == IF ok THEN "launch" ELSE "cleanup"

\* spawn_worker going to the teardown without supervisor::stop when the
\* launch fails (a fault C33_FailedLaunchStopsSpawned must detect)
AfterLaunch_SkipStop(ok) == IF ok THEN "select" ELSE "cleanup"

\* where spawn_worker goes after supervisor::launch
AfterLaunch(ok) == IF ok THEN "select" ELSE "stop"

\* a kill loop that ends at its first failure (a fault
\* C5_StopKillsEveryChild must detect)
KillAttempted_StopAtFailure(keys, killFail) ==
    {i \in keys : \A j \in killFail : i <= j}

\* the children supervisor::stop sends a kill to: the kill loop logs a
\* failure and goes on
KillAttempted(keys, killFail) == keys

\* the map supervisor::stop leaves (execution.clear())
Cleared(execution) == EmptyMap

\* the state of the worker thread when it starts, the plan and the
\* commands apart
StartWorker ==
    /\ wpc = "deploy" /\ kernel = {} /\ master = EmptyMap
    /\ running = EmptyMap /\ procs = EmptyMap /\ readers = EmptyMap
    /\ bus = 0 /\ interrupt = "none" /\ results = 0 /\ hist = <<>>

\* the plan is any plan of any host of a planner invocation on `in`
PlanOf(in) ==
    LET r == generate(Config(in.per_bridge), in.n, Hosts(in.hosts),
                      Pool(MaxPool), in.qdisc)
    IN /\ r.status = "ok"
       /\ conf = Config(in.per_bridge)
       /\ \E h \in DOMAIN r.plans : data = r.plans[h]

\* the commands of playagent::Data: k commands, all redirected or all piped
CommandsOf(k, redirect) ==
    commands = [i \in 0 .. k - 1 |-> [name |-> i, redirect |-> redirect]]

\* a worker on a plan of at most one instance, with up to MaxCommands
\* commands
InitWorker ==
    /\ \E in \in [n : 0 .. 1, hosts : 1 .. MaxHosts, per_bridge : {1},
                  qdisc : {<<>>}] : PlanOf(in)
    /\ \E k \in 0 .. MaxCommands, redirect \in BOOLEAN : CommandsOf(k, redirect)
    /\ StartWorker

\* a worker on any plan, with no commands
InitNet ==
    /\ \E in \in [n : 0 .. MaxInstances, hosts : 1 .. MaxHosts,
                  per_bridge : 1 .. MaxPerBridge,
                  qdisc : {<<>>, [p \in 1 .. MaxInstances |-> <<"rate", "delay">>]}] :
         PlanOf(in)
    /\ CommandsOf(0, FALSE)
    /\ StartWorker

\* core::deploy, called by spawn_worker
Deploy ==
    /\ wpc = "deploy"
    /\ LET ops == DeployOps(conf, data) IN
       \E failAt \in 1 .. Len(ops) + 1, mode \in {"none", "partial"} :
         LET st == RunDeploy(ops, 1, failAt, mode,
                     [data |-> data, kernel |-> kernel, master |-> master,
                      hist |-> Append(hist, Call("core::deploy")), ok |-> TRUE])
         IN /\ data' = st.data /\ kernel' = st.kernel /\ master' = st.master
            /\ hist' = Append(st.hist, Ret("core::deploy", st.ok))
            /\ results' = IF st.ok THEN results ELSE results + 1
            /\ wpc' = AfterDeploy(st.ok)
    /\ UNCHANGED OtherThanWorker
    /\ UNCHANGED <<conf, commands, running, procs, readers, bus, interrupt>>

\* supervisor::launch: the children are spawned in ascending index; the
\* failAt-th launch_one fails before its child is spawned
Launch ==
    /\ wpc = "launch"
    /\ LET ks == SortedKeys(DOMAIN commands) IN
       \E failAt \in 1 .. Len(ks) + 1 :
         LET spawned == {ks[p] : p \in 1 .. failAt - 1}
             piped == {i \in spawned : ~commands[i].redirect}
             ok == failAt = Len(ks) + 1
         IN /\ running' = [i \in spawned |-> [handlers |-> i \in piped]]
            /\ procs' = [i \in spawned |->
                           [alive |-> TRUE, killAttempted |-> FALSE,
                            killFailed |-> FALSE, waited |-> FALSE,
                            waitFailed |-> FALSE]]
            /\ readers' = [r \in piped \X {"stdout", "stderr"} |-> "running"]
            /\ results' = IF ok THEN results ELSE results + 1
            /\ wpc' = AfterLaunch(ok)
            /\ hist' = hist \o <<Call("supervisor::launch"),
                                Ret("supervisor::launch", ok)>>
    /\ UNCHANGED OtherThanWorker
    /\ UNCHANGED <<conf, data, commands, kernel, master, bus, interrupt>>

\* select!: the interrupt channel has an event
SelectInterrupt ==
    /\ wpc = "select" /\ interrupt = "sent"
    /\ interrupt' = "taken" /\ wpc' = "stop"
    /\ hist' = Append(hist, Recv("interrupt"))
    /\ UNCHANGED OtherThanWorker
    /\ UNCHANGED <<conf, data, commands, kernel, master, running, procs,
                   readers, bus, results>>

\* select!: the error bus has a message, which is added to the results
SelectError ==
    /\ wpc = "select" /\ bus > 0
    /\ bus' = bus - 1 /\ results' = results + 1 /\ wpc' = "stop"
    /\ hist' = Append(hist, Recv("receiver_errors"))
    /\ UNCHANGED OtherThanWorker
    /\ UNCHANGED <<conf, data, commands, kernel, master, running, procs,
                   readers, interrupt>>

\* supervisor::stop, its first loop: a kill to every child; a kill that
\* fails (killFail) leaves the child as it is
StopKill ==
    /\ wpc = "stop"
    /\ \E killFail \in SUBSET DOMAIN running :
         procs' = [i \in DOMAIN procs |->
                     IF i \in KillAttempted(DOMAIN running, killFail)
                     THEN [procs[i] EXCEPT !.killAttempted = TRUE,
                                           !.killFailed = i \in killFail,
                                           !.alive = @ /\ i \in killFail]
                     ELSE procs[i]]
    /\ wpc' = "stop_wait"
    /\ hist' = Append(hist, Call("supervisor::stop"))
    /\ UNCHANGED OtherThanWorker
    /\ UNCHANGED <<conf, data, commands, kernel, master, running, readers,
                   bus, interrupt, results>>

\* supervisor::stop, its second loop and the clear: child.wait() returns
\* once the child has exited; a wait that fails or reports a non-zero code
\* (waitFail) is logged; the map is cleared and stop returns Ok
StopWait ==
    /\ wpc = "stop_wait"
    /\ \A i \in DOMAIN running : ~procs[i].alive
    /\ \E waitFail \in SUBSET DOMAIN running :
         procs' = [i \in DOMAIN procs |->
                     IF i \in DOMAIN running
                     THEN [procs[i] EXCEPT !.waited = TRUE,
                                           !.waitFailed = i \in waitFail]
                     ELSE procs[i]]
    /\ running' = Cleared(running)
    /\ wpc' = "cleanup"
    /\ hist' = Append(hist, Ret("supervisor::stop", TRUE))
    /\ UNCHANGED OtherThanWorker
    /\ UNCHANGED <<conf, data, commands, kernel, master, readers, bus,
                   interrupt, results>>

\* core::cleanup, called by spawn_worker, which then returns; the
\* environment fails at most the failAt-th revert
Cleanup ==
    /\ wpc = "cleanup"
    /\ LET ops == RevertOps(data) IN
       \E failAt \in 0 .. Len(ops) :
         LET st == RunCleanup(ops, 1, failAt,
                     [data |-> data, kernel |-> kernel, master |-> master,
                      hist |-> Append(hist, Call("core::cleanup")), ok |-> TRUE])
         IN /\ data' = st.data /\ kernel' = st.kernel /\ master' = st.master
            /\ hist' = Append(st.hist, Ret("core::cleanup", TRUE))
    /\ wpc' = "done"
    /\ UNCHANGED OtherThanWorker
    /\ UNCHANGED <<conf, commands, running, procs, readers, bus, interrupt,
                   results>>

\* ----------------------------------------------- callers of the core
\* core::deploy and core::cleanup are public functions on a plan the
\* caller keeps: a caller other than spawn_worker may call them in any
\* order, up to MaxCalls times. wpc = "core" is such a caller between two
\* calls.
CallsMade == Cardinality({p \in DOMAIN hist : hist[p][4] = "call"})

\* a caller of the core on any plan, nothing deployed
InitCore ==
    /\ \E in \in [n : 0 .. MaxInstances, hosts : 1 .. MaxHosts,
                  per_bridge : 1 .. MaxPerBridge,
                  qdisc : {<<>>, [p \in 1 .. MaxInstances |-> <<"rate", "delay">>]}] :
         PlanOf(in)
    /\ CommandsOf(0, FALSE)
    /\ wpc = "core" /\ kernel = {} /\ master = EmptyMap
    /\ running = EmptyMap /\ procs = EmptyMap /\ readers = EmptyMap
    /\ bus = 0 /\ interrupt = "none" /\ results = 0 /\ hist = <<>>

\* core::deploy on the plan as the earlier calls left it
CoreDeploy ==
    /\ wpc = "core" /\ CallsMade < MaxCalls
    /\ LET ops == DeployOps(conf, data) IN
       \E failAt \in 1 .. Len(ops) + 1, mode \in {"none", "partial"} :
         LET st == RunDeploy(ops, 1, failAt, mode,
                     [data |-> data, kernel |-> kernel, master |-> master,
                      hist |-> Append(hist, Call("core::deploy")), ok |-> TRUE])
         IN /\ data' = st.data /\ kernel' = st.kernel /\ master' = st.master
            /\ hist' = Append(st.hist, Ret("core::deploy", st.ok))
    /\ UNCHANGED OtherThanWorker
    /\ UNCHANGED <<conf, commands, wpc, running, procs, readers, bus,
                   interrupt, results>>

\* core::cleanup on the plan as the earlier calls left it
CoreCleanup ==
    /\ wpc = "core" /\ CallsMade < MaxCalls
    /\ LET ops == RevertOps(data) IN
       \E failAt \in 0 .. Len(ops) :
         LET st == RunCleanup(ops, 1, failAt,
                     [data |-> data, kernel |-> kernel, master |-> master,
                      hist |-> Append(hist, Call("core::cleanup")), ok |-> TRUE])
         IN /\ data' = st.data /\ kernel' = st.kernel /\ master' = st.master
            /\ hist' = Append(st.hist, Ret("core::cleanup", TRUE))
    /\ UNCHANGED OtherThanWorker
    /\ UNCHANGED <<conf, commands, wpc, running, procs, readers, bus,
                   interrupt, results>>

NextCore == CoreDeploy \/ CoreCleanup

\* a child exits by itself
ChildExit(i) ==
    /\ procs[i].alive
    /\ procs' = [procs EXCEPT ![i].alive = FALSE]
    /\ UNCHANGED OtherThanWorker
    /\ UNCHANGED <<conf, data, commands, wpc, kernel, master, running,
                   readers, bus, interrupt, results, hist>>

\* a reader thread reaches the end of its stream and returns
ReaderEof(r) ==
    /\ readers[r] = "running"
    /\ readers' = [readers EXCEPT ![r] = "returned"]
    /\ UNCHANGED OtherThanWorker
    /\ UNCHANGED <<conf, data, commands, wpc, kernel, master, running,
                   procs, bus, interrupt, results, hist>>

\* a reader thread hits a read error, sends it on the error bus (the send
\* is lost once spawn_worker has returned) and returns
ReaderError(r) ==
    /\ readers[r] = "running"
    /\ readers' = [readers EXCEPT ![r] = "returned"]
    /\ bus' = IF wpc # "done" THEN bus + 1 ELSE bus
    /\ UNCHANGED OtherThanWorker
    /\ UNCHANGED <<conf, data, commands, wpc, kernel, master, running,
                   procs, interrupt, results, hist>>

\* worker_stop: the agent sends on the interrupt channel (bounded(1), once)
SendInterrupt ==
    /\ interrupt = "none" /\ wpc # "done"
    /\ interrupt' = "sent"
    /\ UNCHANGED OtherThanWorker
    /\ UNCHANGED <<conf, data, commands, wpc, kernel, master, running,
                   procs, readers, bus, results, hist>>

NextWorker ==
    \/ Deploy \/ Launch \/ SelectInterrupt \/ SelectError
    \/ StopKill \/ StopWait \/ Cleanup
    \/ \E i \in DOMAIN procs : ChildExit(i)
    \/ \E r \in DOMAIN readers : ReaderEof(r)
    \/ \E r \in DOMAIN readers : ReaderError(r)
    \/ SendInterrupt

\* ----------------------------------------------------- partition agent
\* Bucket ratios are multiples of 1/BucketDen; with BucketDen a power of
\* two the f64 product bucket * len and its ceil are exact.
BucketDen == 4

\* the share rounded down (a fault C28_BucketsCeilOfRest must detect)
CeilRatio_Floor(num, len) == (num * len) \div BucketDen

\* (bucket * len as f64).ceil() as usize, for bucket = num / BucketDen
CeilRatio(num, len) == (num * len + BucketDen - 1) \div BucketDen

\* the buckets of Task::apply: each takes its share from what the
\* iterator over the instances has left; sequences of sequences
RECURSIVE Buckets(_, _, _)
Buckets(ratios, rest, len) ==
    IF Len(ratios) = 0 THEN <<>>
    ELSE LET want == CeilRatio(Head(ratios), len)
             got == IF want < Len(rest) THEN want ELSE Len(rest)
         IN <<SubSeq(rest, 1, got)>>
            \o Buckets(Tail(ratios), SubSeq(rest, got + 1, Len(rest)), len)

\* rules only from a bucket to the buckets after it (a fault
\* C27_ApplyInstallsCrossPairs must detect)
ApplyOrder_OneWay(t) ==
    LET bs == Buckets(t.partition, t.instances, Len(t.instances))
        others(i) == Concat([j \in 1 .. Len(bs) |-> IF j <= i THEN <<>> ELSE bs[j]])
        forTo(i, to) == [f \in 1 .. Len(bs[i]) |-> <<bs[i][f], to>>]
        forBucket(i) == Concat([k \in 1 .. Len(others(i)) |-> forTo(i, others(i)[k])])
    IN Concat([i \in 1 .. Len(bs) |-> forBucket(i)])

\* the <<from, to>> pairs of Task::apply, in the order of its loops: for
\* each bucket i, for each `to` of the other buckets, for each `from` of
\* bucket i
ApplyOrder(t) ==
    LET bs == Buckets(t.partition, t.instances, Len(t.instances))
        others(i) == Concat([j \in 1 .. Len(bs) |-> IF j = i THEN <<>> ELSE bs[j]])
        forTo(i, to) == [f \in 1 .. Len(bs[i]) |-> <<bs[i][f], to>>]
        forBucket(i) == Concat([k \in 1 .. Len(others(i)) |-> forTo(i, others(i)[k])])
    IN Concat([i \in 1 .. Len(bs) |-> forBucket(i)])

\* rules with one more / one less rule for each pair of the set ps
AddRules(r, ps) == [x \in DOMAIN r \cup ps |->
                      (IF x \in DOMAIN r THEN r[x] ELSE 0) + (IF x \in ps THEN 1 ELSE 0)]

DelRules(r, ps) ==
    LET left == {x \in DOMAIN r : r[x] - (IF x \in ps THEN 1 ELSE 0) > 0}
    IN [x \in left |-> r[x] - (IF x \in ps THEN 1 ELSE 0)]

\* Task::apply: the first k pairs are installed and remembered; the
\* (k+1)-th drop_packets_apply, if there is one, fails and ends the call
apply(t, r, k) ==
    LET order == ApplyOrder(t)
        done == {order[p] : p \in 1 .. k}
    IN [task |-> [t EXCEPT !.enabled = @ \cup done],
        rules |-> AddRules(r, done),
        ok |-> k = Len(order)]

\* Task::revert: the rules of `deleted` are removed in the order the set is
\* drained; when not all are, the next drop_packets_revert failed and ended
\* the call; the drain empties the set either way
revert(t, r, deleted) ==
    [task |-> [t EXCEPT !.enabled = {}],
     rules |-> DelRules(r, deleted),
     ok |-> deleted = t.enabled]

\* what the agent thread does when the stop signal arrives while the rules
\* are installed: it breaks out of the loop
OnStopActive(t, r) == [task |-> t, rules |-> r]

PartitionMenu ==
    {b \in UNION {[1 .. k -> 0 .. BucketDen] : k \in 1 .. MaxBuckets} :
        LET RECURSIVE Sum(_)
            Sum(q) == IF Len(q) = 0 THEN 0 ELSE Head(q) + Sum(Tail(q))
        IN Sum(b) = BucketDen}

\* Task::new and Background::spawn
InitPart ==
    /\ \E b \in PartitionMenu, n \in 0 .. MaxPartInstances :
         task = [partition |-> b, instances |-> [i \in 1 .. n |-> i - 1],
                 enabled |-> {}]
    /\ rules = EmptyMap /\ ppc = "idle" /\ sender = "none"
    /\ stopper = "running" /\ cycles = 0 /\ plog = <<>>

\* the first select!: the interval elapses with no stop signal; apply()
IdleTimeout ==
    /\ ppc = "idle" /\ sender # "sent" /\ cycles < MaxCycles
    /\ \E k \in 0 .. Len(ApplyOrder(task)) :
         LET a == apply(task, rules, k)
         IN /\ task' = a.task /\ rules' = a.rules
            /\ plog' = Append(plog, <<"apply", a.ok>>)
    /\ ppc' = "active" /\ cycles' = cycles + 1
    /\ UNCHANGED <<sender, stopper>>
    /\ UNCHANGED OtherThanPart

\* the stop signal is consumed but the loop goes on (a fault
\* C31_StopTerminates must detect)
IdleStop_NoBreak ==
    /\ ppc = "idle" /\ sender = "sent"
    /\ sender' = "taken" /\ ppc' = "idle"
    /\ UNCHANGED <<task, rules, stopper, cycles, plog>>
    /\ UNCHANGED OtherThanPart

\* the first select!: the stop signal is received; break
IdleStop ==
    /\ ppc = "idle" /\ sender = "sent"
    /\ sender' = "taken" /\ ppc' = "exited"
    /\ UNCHANGED <<task, rules, stopper, cycles, plog>>
    /\ UNCHANGED OtherThanPart

\* a revert() after which the agent waits for the duration again (a fault
\* C30_ApplyRevertAlternate must detect)
ActiveTimeout_StaysActive ==
    /\ ppc = "active" /\ sender # "sent" /\ Len(plog) < 2 * MaxCycles
    /\ \E deleted \in SUBSET task.enabled :
         LET a == revert(task, rules, deleted)
         IN /\ task' = a.task /\ rules' = a.rules
            /\ plog' = Append(plog, <<"revert", a.ok>>)
    /\ ppc' = "active"
    /\ UNCHANGED <<sender, stopper, cycles>>
    /\ UNCHANGED OtherThanPart

\* the second select!: the duration elapses with no stop signal; revert()
ActiveTimeout ==
    /\ ppc = "active" /\ sender # "sent"
    /\ \E deleted \in SUBSET task.enabled :
         LET a == revert(task, rules, deleted)
         IN /\ task' = a.task /\ rules' = a.rules
            /\ plog' = Append(plog, <<"revert", a.ok>>)
    /\ ppc' = "idle"
    /\ UNCHANGED <<sender, stopper, cycles>>
    /\ UNCHANGED OtherThanPart

\* the second select!: the stop signal is received; break
ActiveStop ==
    /\ ppc = "active" /\ sender = "sent"
    /\ LET a == OnStopActive(task, rules) IN task' = a.task /\ rules' = a.rules
    /\ sender' = "taken" /\ ppc' = "stopped_active"
    /\ UNCHANGED <<stopper, cycles, plog>>
    /\ UNCHANGED OtherThanPart

\* Background::stop: send the stop signal
StopSend ==
    /\ stopper = "running" /\ sender = "none"
    /\ sender' = "sent" /\ stopper' = "joining"
    /\ UNCHANGED <<task, rules, ppc, cycles, plog>>
    /\ UNCHANGED OtherThanPart

\* Background::stop: the join returns once the agent thread has exited
StopJoin ==
    /\ stopper = "joining" /\ ppc \in {"exited", "stopped_active"}
    /\ stopper' = "returned"
    /\ UNCHANGED <<task, rules, ppc, sender, cycles, plog>>
    /\ UNCHANGED OtherThanPart

NextPart ==
    \/ IdleTimeout \/ IdleStop \/ ActiveTimeout \/ ActiveStop
    \/ StopSend \/ StopJoin

\* ------------------------------------------------- library environment
\* Env::new, the plan of the caller apart
EnvNew(flag) ==
    [revert |-> flag, bridge |-> FALSE, namespaces |-> {}, veth |-> {},
     qdisc |-> {}, tasks |-> {}, partition |-> FALSE, next |-> 0]

\* the guest end of instance i's veth pair while it is still in the root
\* namespace (Veth::apply before `ip link set <guest> netns <ns>`)
Vr(i) == <<"vr", i, 0>>

\* a run that reverts whatever the flag says (a fault C17_NoRevertKeepsAll
\* must detect)
ShouldRevert_Always(e) == TRUE

\* `if self.revert` of Env::run
ShouldRevert(e) == e.revert

\* Env::new, with_revert, with_network
InitEnv ==
    /\ \E flag \in BOOLEAN : env = EnvNew(flag)
    /\ epool \in {0, MaxEnvInstances + 1}
    /\ epc = "new" /\ ekernel = {} /\ ecreated = {} /\ eprocs = EmptyMap
    /\ epart = "none" /\ erst = "none" /\ ehist = <<>>

\* the ways Builder::spawn ends: Ok ("none"), or an error of one of its
\* commands: `ip netns add` ("ns"), `ip link set lo up` ("ns_lo"),
\* `ip link add .. type veth` ("veth"), `ip link set <guest> netns`
\* ("veth_netns"), a later command of Veth::apply ("veth_up"), the first
\* command of Qdisc::apply ("qdisc"), its second ("qdisc_netem"),
\* Task::start ("start")
SpawnFailures == {"none", "ns", "ns_lo", "veth", "veth_netns", "veth_up",
                  "qdisc", "qdisc_netem", "start"}

\* Builder::new and Builder::spawn on Env e and kernel k; q: with_qdisc
\* was called with a tbf and a netem
BuilderSpawn(e, k, fail, q) ==
    LET i == e.next
        e1 == [e EXCEPT !.next = @ + 1, !.namespaces = @ \cup {i}]
        k1 == k \cup {Ns(i)}
        e2 == [e1 EXCEPT !.veth = @ \cup {i}]
        k2 == k1 \cup {Vh(i), Vg(i)}
        e3 == IF q THEN [e2 EXCEPT !.qdisc = @ \cup {i}] ELSE e2
        k3 == IF q THEN k2 \cup {Qd(i, 1), Qd(i, 2)} ELSE k2
    IN CASE fail = "ns" -> [env |-> e1, kernel |-> k, ok |-> FALSE]
         [] fail = "ns_lo" -> [env |-> e1, kernel |-> k1, ok |-> FALSE]
         [] fail = "veth" -> [env |-> e2, kernel |-> k1, ok |-> FALSE]
         [] fail = "veth_netns" ->
               [env |-> e2, kernel |-> k1 \cup {Vh(i), Vr(i)}, ok |-> FALSE]
         [] fail = "veth_up" -> [env |-> e2, kernel |-> k2, ok |-> FALSE]
         [] fail = "qdisc" -> [env |-> e3, kernel |-> k2, ok |-> FALSE]
         [] fail = "qdisc_netem" ->
               [env |-> e3, kernel |-> k2 \cup {Qd(i, 1)}, ok |-> FALSE]
         [] fail = "start" -> [env |-> e3, kernel |-> k3, ok |-> FALSE]
         [] OTHER -> [env |-> [e3 EXCEPT !.tasks = @ \cup {i}],
                      kernel |-> k3, ok |-> TRUE]

\* The reverts Env::run issues, in order: every veth, every namespace, the
\* bridge.
EnvRevertOps(e) ==
    LET vks == SortedKeys(e.veth)
        nks == SortedKeys(e.namespaces)
    IN [p \in 1 .. Len(vks) |-> <<"Veth::revert", vks[p], 0>>]
       \o [p \in 1 .. Len(nks) |-> <<"Namespace::revert", nks[p], 0>>]
       \o (IF e.bridge THEN <<<<"Bridge::revert", 0, 0>>>> ELSE <<>>)

\* the command of a revert can succeed: Veth::revert deletes the guest end
\* inside the namespace, the others delete the namespace or the bridge
EnvRevertable(op, k) ==
    CASE op[1] = "Veth::revert" -> Ns(op[2]) \in k /\ Vg(op[2]) \in k
      [] op[1] = "Namespace::revert" -> Ns(op[2]) \in k
      [] op[1] = "Bridge::revert" -> Br(op[2]) \in k

\* what a revert that succeeds leaves of the kernel: a guest end goes with
\* its peer and its qdiscs, a namespace with the links inside it
EnvReverted(op, k) ==
    CASE op[1] = "Veth::revert" -> DelLink(k, Vg(op[2]))
      [] op[1] = "Namespace::revert" ->
            IF Vg(op[2]) \in k THEN DelLink(k, Vg(op[2])) \ {Ns(op[2])}
            ELSE k \ {Ns(op[2])}
      [] op[1] = "Bridge::revert" -> k \ {Br(op[2])}

\* the reverts of Env::run from the p-th on; a failure is logged and the
\* run goes on; the environment fails the failAt-th
RECURSIVE EnvRunReverts(_, _, _, _)
EnvRunReverts(ops, p, failAt, st) ==
    IF p > Len(ops) THEN st
    ELSE LET op == ops[p]
             res == IF ~EnvRevertable(op, st.kernel) THEN "absent"
                    ELSE IF p = failAt THEN "err" ELSE "ok"
         IN EnvRunReverts(ops, p + 1, failAt,
               [kernel |-> IF res = "ok" THEN EnvReverted(op, st.kernel)
                           ELSE st.kernel,
                hist |-> Append(st.hist, <<op[1], op[2], op[3], res>>)])

\* Env::run: the address and the apply of the bridge; on an error run
\* returns it at once
EnvRunBridge ==
    /\ epc = "new"
    /\ IF epool = 0
       THEN /\ erst' = "err" /\ epc' = "returned"
            /\ UNCHANGED <<env, epool, ekernel, ecreated>>
       ELSE \E outcome \in {"ok", "failed", "partial"} :
              /\ epool' = epool - 1
              /\ env' = [env EXCEPT !.bridge = TRUE]
              /\ ekernel' = IF outcome = "failed" THEN ekernel
                            ELSE ekernel \cup {Br(0)}
              /\ ecreated' = IF outcome = "failed" THEN ecreated
                             ELSE ecreated \cup {Br(0)}
              /\ epc' = IF outcome = "ok" THEN "body" ELSE "returned"
              /\ erst' = IF outcome = "ok" THEN erst ELSE "err"
    /\ UNCHANGED <<eprocs, epart, ehist>>
    /\ UNCHANGED OtherThanEnv

\* the closure given to Env::run calls env.add(..).spawn()
EnvSpawn ==
    /\ epc = "body" /\ env.next < MaxEnvInstances /\ epool > 0
    /\ \E fail \in SpawnFailures, q \in BOOLEAN :
         /\ fail \in {"qdisc", "qdisc_netem"} => q
         /\ LET r == BuilderSpawn(env, ekernel, fail, q) IN
            /\ env' = r.env /\ ekernel' = r.kernel
            /\ ecreated' = ecreated \cup r.kernel
            /\ eprocs' = IF r.ok
                         THEN Insert(eprocs, env.next,
                                     [alive |-> TRUE, stopCalled |-> FALSE])
                         ELSE eprocs
    /\ epool' = epool - 1
    /\ UNCHANGED <<epc, epart, erst, ehist>>
    /\ UNCHANGED OtherThanEnv

\* the closure calls env.enable_partition
EnvEnablePartition ==
    /\ epc = "body" /\ ~env.partition
    /\ env' = [env EXCEPT !.partition = TRUE] /\ epart' = "running"
    /\ UNCHANGED <<epool, epc, ekernel, ecreated, eprocs, erst, ehist>>
    /\ UNCHANGED OtherThanEnv

\* the closure returns
EnvBodyReturns ==
    /\ epc = "body" /\ epc' = "stop_tasks"
    /\ UNCHANGED <<env, epool, ekernel, ecreated, eprocs, epart, erst, ehist>>
    /\ UNCHANGED OtherThanEnv

\* a process of a task exits by itself
EnvChildExit(i) ==
    /\ eprocs[i].alive
    /\ eprocs' = [eprocs EXCEPT ![i].alive = FALSE]
    /\ UNCHANGED <<env, epool, epc, ekernel, ecreated, epart, erst, ehist>>
    /\ UNCHANGED OtherThanEnv

\* Env::run: Task::stop on every task of the drained map; a kill that
\* fails (killFail) ends that stop with an error, which is logged
EnvStopTasks ==
    /\ epc = "stop_tasks"
    /\ \E killFail \in SUBSET env.tasks :
         LET ks == SortedKeys(env.tasks) IN
         /\ eprocs' = [i \in DOMAIN eprocs |->
                         IF i \in env.tasks
                         THEN [alive |-> eprocs[i].alive /\ i \in killFail,
                               stopCalled |-> TRUE]
                         ELSE eprocs[i]]
         /\ ehist' = ehist \o [p \in 1 .. Len(ks) |->
                                 <<"Task::stop", ks[p], 0,
                                   IF ks[p] \in killFail THEN "err" ELSE "ok">>]
    /\ env' = [env EXCEPT !.tasks = {}]
    /\ epc' = "stop_partition"
    /\ UNCHANGED <<epool, ekernel, ecreated, epart, erst>>
    /\ UNCHANGED OtherThanEnv

\* Env::run: self.partition.take(), and stop if there is one
EnvStopPartition ==
    /\ epc = "stop_partition"
    /\ env' = [env EXCEPT !.partition = FALSE]
    /\ epart' = IF env.partition THEN "stopped" ELSE epart
    /\ ehist' = IF env.partition
                THEN Append(ehist, <<"PartitionBackground::stop", 0, 0, "ok">>)
                ELSE ehist
    /\ epc' = "revert"
    /\ UNCHANGED <<epool, ekernel, ecreated, eprocs, erst>>
    /\ UNCHANGED OtherThanEnv

\* Env::run: the reverts, when revert is enabled; run returns Ok
EnvRevert ==
    /\ epc = "revert"
    /\ IF ShouldRevert(env)
       THEN LET ops == EnvRevertOps(env) IN
            \E failAt \in 0 .. Len(ops) :
              LET st == EnvRunReverts(ops, 1, failAt,
                                      [kernel |-> ekernel, hist |-> ehist])
              IN /\ ekernel' = st.kernel /\ ehist' = st.hist
                 /\ env' = [env EXCEPT !.veth = {}, !.namespaces = {},
                                       !.bridge = FALSE]
       ELSE UNCHANGED <<env, ekernel, ehist>>
    /\ epc' = "returned" /\ erst' = "ok"
    /\ UNCHANGED <<epool, ecreated, eprocs, epart>>
    /\ UNCHANGED OtherThanEnv

NextEnv ==
    \/ EnvRunBridge \/ EnvSpawn \/ EnvEnablePartition \/ EnvBodyReturns
    \/ \E i \in DOMAIN eprocs : EnvChildExit(i)
    \/ EnvStopTasks \/ EnvStopPartition \/ EnvRevert

\* ---------------------------------------------------------- prefix sweep
\* Names are strings, modelled as sequences of one-character strings, so
\* that starts_with compares them character by character.
Digits == <<"0", "1", "2", "3", "4", "5", "6", "7", "8", "9">>

Digit(i) == <<Digits[i + 1]>>

\* str::starts_with
StartsWith(name, pre) ==
    Len(pre) <= Len(name) /\ SubSeq(name, 1, Len(pre)) = pre

\* format!("{}-{}", prefix, index)
NamespaceName(pre, i) == pre \o <<"-">> \o Digit(i)

\* "<prefix>b<bridge_index>"
BridgeName(pre, b) == pre \o <<"b">> \o Digit(b)

\* host side "v-<ns>-br"; the guest side lives inside the namespace
VethHost(ns) == <<"v", "-">> \o ns \o <<"-", "b", "r">>

\* format!("v-{}-c{}{}-0", ..), format!("v-{}-c{}{}-1", ..)
veth_connect_pair(pre, i, j) ==
    LET stem == <<"v", "-">> \o pre \o <<"-", "c">> \o Digit(i) \o Digit(j)
    IN <<stem \o <<"-", "0">>, stem \o <<"-", "1">>>>

\* a link of the root namespace: peer is the name of the other end of a
\* veth pair when that end is in the root namespace too, netns the name of
\* the namespace that holds the other end; <<>> stands for "none"
Link(type, ifname, peer, netns) ==
    [type |-> type, ifname |-> ifname, peer |-> peer, netns |-> netns]

\* the prefixes of the playgrounds on the machine, oldest first
SweepPrefixes == << <<"p">>, <<"p", "1">>, <<"q">> >>

\* what a playground of b bridges, one instance per bridge, has in the root
\* namespace, in the order deploy creates it: the bridges, the connector
\* pairs of neighbouring bridges, then per instance the namespace and the
\* host end of its veth pair.  A playground that core::cleanup tore down
\* (full = FALSE) keeps only the connector pairs.
PlaygroundNetns(pre, full, b) ==
    IF full THEN [i \in 1 .. b |-> NamespaceName(pre, i - 1)] ELSE <<>>

PlaygroundLinks(pre, full, b) ==
    LET bridges == [i \in 1 .. b |-> Link("bridge", BridgeName(pre, i - 1), <<>>, <<>>)]
        pairs == [i \in 1 .. 2 * (b - 1) |->
                    LET first == (i - 1) \div 2
                        pair == veth_connect_pair(pre, first, first + 1)
                        end == ((i - 1) % 2) + 1
                    IN Link("veth", pair[end], pair[3 - end], <<>>)]
        hosts == [i \in 1 .. b |->
                    Link("veth", VethHost(NamespaceName(pre, i - 1)), <<>>,
                         NamespaceName(pre, i - 1))]
    IN IF b = 0 THEN <<>>
       ELSE IF full THEN bridges \o pairs \o hosts
       ELSE pairs

\* a veth of somebody else whose name begins with the letters of a prefix
ForeignVeth == Link("veth", <<"p", "t", "p">>, <<>>, <<>>)

SweepShapes == [full : BOOLEAN, bridges : 0 .. MaxSweepBridges]

SweepKernel(shape, foreign) ==
    [netns |-> PlaygroundNetns(SweepPrefixes[1], shape[1].full, shape[1].bridges)
               \o PlaygroundNetns(SweepPrefixes[2], shape[2].full, shape[2].bridges)
               \o PlaygroundNetns(SweepPrefixes[3], shape[3].full, shape[3].bridges),
     links |-> PlaygroundLinks(SweepPrefixes[1], shape[1].full, shape[1].bridges)
               \o PlaygroundLinks(SweepPrefixes[2], shape[2].full, shape[2].bridges)
               \o PlaygroundLinks(SweepPrefixes[3], shape[3].full, shape[3].bridges)
               \o (IF foreign THEN <<ForeignVeth>> ELSE <<>>)]

SweepFns == {"namespace_cleanup", "bridge_cleanup", "veth_cleanup"}

\* every name the kernel holds in the root namespace
KernelNames(k) == Range(k.netns) \cup {k.links[i].ifname : i \in DOMAIN k.links}

\* ip -json netns list
ListNetns(k) == k.netns

\* ip -json link show type <type>: the ifname of each entry
ListLinks(k, type) ==
    LET sel == SelectSeq(k.links, LAMBDA l : l.type = type)
    IN [i \in DOMAIN sel |-> sel[i].ifname]

\* does "ip netns del" / "ip link del" find its object
Present(what, k, name) ==
    IF what = "netns"
    THEN \E i \in DOMAIN k.netns : k.netns[i] = name
    ELSE \E i \in DOMAIN k.links : k.links[i].ifname = name

\* ip netns del: the namespace goes, and with it the veth pairs that have
\* one end inside it
ip_netns_del(k, name) ==
    [netns |-> SelectSeq(k.netns, LAMBDA n : n # name),
     links |-> SelectSeq(k.links, LAMBDA l : l.netns # name)]

\* ip link del: the link goes, and the other end of a veth pair with it
ip_link_del(k, name) ==
    [k EXCEPT !.links = SelectSeq(@, LAMBDA l : l.ifname # name /\ l.peer # name)]

Delete(what, k, name) ==
    IF what = "netns" THEN ip_netns_del(k, name) ELSE ip_link_del(k, name)

\* the loop of a sweep over the listing it took before the first delete:
\* names that start with pre are deleted; execute(..)? returns at the first
\* command that fails
RECURSIVE SweepLoop(_, _, _, _, _)
SweepLoop(names, i, pre, what, st) ==
    IF i > Len(names) THEN [st EXCEPT !.status = "ok"]
    ELSE IF ~StartsWith(names[i], pre) THEN SweepLoop(names, i + 1, pre, what, st)
    ELSE IF Present(what, st.kernel, names[i])
    THEN SweepLoop(names, i + 1, pre, what,
                   [st EXCEPT !.kernel = Delete(what, @, names[i]),
                              !.log = Append(@, <<what, names[i], "ok">>)])
    ELSE [st EXCEPT !.log = Append(@, <<what, names[i], "err">>),
                    !.status = "err"]

\* one sweep from the current state: the kernel, the log and the status it
\* ends with
Sweep(names, pre, what) ==
    SweepLoop(names, 1, pre, what,
              [kernel |-> skernel, log |-> slog, status |-> "none"])

InitSweep ==
    /\ sprefix \in Range(SweepPrefixes)
    /\ \E shape \in [DOMAIN SweepPrefixes -> SweepShapes], foreign \in BOOLEAN :
           skernel = SweepKernel(shape, foreign)
    /\ sres = [fn \in SweepFns |-> "none"]
    /\ slisted = [fn \in SweepFns |-> {}]
    /\ sgone = {}
    /\ slog = <<>>

namespace_cleanup ==
    /\ sres["namespace_cleanup"] = "none"
    /\ LET names == ListNetns(skernel)
           r == Sweep(names, sprefix, "netns")
       IN /\ skernel' = r.kernel
          /\ slog' = r.log
          /\ sres' = [sres EXCEPT !["namespace_cleanup"] = r.status]
          /\ slisted' = [slisted EXCEPT !["namespace_cleanup"] = Range(names)]
          /\ sgone' = sgone \cup (KernelNames(skernel) \ KernelNames(r.kernel))
    /\ UNCHANGED <<sprefix, OtherThanSweep>>

bridge_cleanup ==
    /\ sres["bridge_cleanup"] = "none"
    /\ LET names == ListLinks(skernel, "bridge")
           r == Sweep(names, sprefix, "link")
       IN /\ skernel' = r.kernel
          /\ slog' = r.log
          /\ sres' = [sres EXCEPT !["bridge_cleanup"] = r.status]
          /\ slisted' = [slisted EXCEPT !["bridge_cleanup"] = Range(names)]
          /\ sgone' = sgone \cup (KernelNames(skernel) \ KernelNames(r.kernel))
    /\ UNCHANGED <<sprefix, OtherThanSweep>>

veth_cleanup ==
    /\ sres["veth_cleanup"] = "none"
    /\ LET names == ListLinks(skernel, "veth")
           r == Sweep(names, <<"v", "-">> \o sprefix, "link")
       IN /\ skernel' = r.kernel
          /\ slog' = r.log
          /\ sres' = [sres EXCEPT !["veth_cleanup"] = r.status]
          /\ slisted' = [slisted EXCEPT !["veth_cleanup"] = Range(names)]
          /\ sgone' = sgone \cup (KernelNames(skernel) \ KernelNames(r.kernel))
    /\ UNCHANGED <<sprefix, OtherThanSweep>>

NextSweep == namespace_cleanup \/ bridge_cleanup \/ veth_cleanup

\* ------------------------------------------------------ partition parser
\* The input is the sequence of tokens split_whitespace yields.  Bucket
\* tokens are decimal fractions with an exact f64 value, kept as a number
\* of quarters (BucketDen).
F64Tokens == {"0.5", "1.0"}

\* token.parse::<f64>()
ParseF64(token) ==
    IF token = "0.5" THEN [ok |-> TRUE, value |-> 2]
    ELSE IF token = "1.0" THEN [ok |-> TRUE, value |-> 4]
    ELSE [ok |-> FALSE, value |-> 0]

\* token.parse::<humantime::Duration>(): a number followed by a unit
ParseDuration(token) ==
    IF token = "30s" THEN [ok |-> TRUE, value |-> 30]
    ELSE IF token = "0s" THEN [ok |-> TRUE, value |-> 0]
    ELSE [ok |-> FALSE, value |-> 0]

Tokens == F64Tokens \cup {"interval", "duration", "30s", "0s", "x"}

ParseErr(msg) ==
    [status |-> "err", msg |-> msg, buckets |-> <<>>, interval |-> 0, duration |-> 0]

PoutNone ==
    [status |-> "none", msg |-> "", buckets |-> <<>>, interval |-> 0, duration |-> 0]

RECURSIVE SumOf(_)
SumOf(s) == IF s = <<>> THEN 0 ELSE Head(s) + SumOf(Tail(s))

\* while let Some(token) = splitted.next(): stop after "interval", push the
\* token as f64 otherwise; next is the position of the iterator afterwards
RECURSIVE BucketTokens(_, _, _)
BucketTokens(s, i, buckets) ==
    IF i > Len(s) THEN [ok |-> TRUE, buckets |-> buckets, next |-> i]
    ELSE IF s[i] = "interval" THEN [ok |-> TRUE, buckets |-> buckets, next |-> i + 1]
    ELSE IF ~ParseF64(s[i]).ok THEN [ok |-> FALSE, buckets |-> buckets, next |-> i]
    ELSE BucketTokens(s, i + 1, Append(buckets, ParseF64(s[i]).value))

parse(s) ==
    LET b == BucketTokens(s, 1, <<>>)
        n == b.next
    IN IF ~b.ok THEN ParseErr("can't parse into f64")
       ELSE IF SumOf(b.buckets) # BucketDen THEN ParseErr("sum of buckets must be 1.0")
       ELSE IF n > Len(s) THEN ParseErr("missing interval")
       ELSE IF ~ParseDuration(s[n]).ok THEN ParseErr("invalid duration")
       ELSE IF n + 1 > Len(s) \/ s[n + 1] # "duration" THEN ParseErr("missing duration")
       ELSE IF n + 2 > Len(s) THEN ParseErr("missing duration")
       ELSE IF ~ParseDuration(s[n + 2]).ok THEN ParseErr("invalid duration")
       ELSE [status |-> "ok", msg |-> "", buckets |-> b.buckets,
             interval |-> ParseDuration(s[n]).value,
             duration |-> ParseDuration(s[n + 2]).value]

TokenSeqs == UNION {[1 .. n -> Tokens] : n \in 0 .. MaxTokens}

InitParse == pin \in TokenSeqs /\ pout = PoutNone

Parse ==
    /\ pout.status = "none"
    /\ pout' = parse(pin)
    /\ UNCHANGED <<pin, OtherThanParse>>

NextParse == Parse

\* ------------------------------------------------------ shutdown actor
\* Time is counted in whole units; a Shutdown has an interval of one or two
\* units, an optional pause of one unit (Option<Duration>: <<>> or <<1>>)
\* and no jitter. A ShutdownTask is
\* [task, shutdown]; a heap entry is [timestamp, task] with a ShutdownTask
\* as task.

\* Instant::cmp
CmpInstant(a, b) == IF a < b THEN "Less" ELSE IF a = b THEN "Equal" ELSE "Greater"

\* the comparison without the Reverse (a fault C35_PeekIsEarliest must
\* detect)
partial_cmp_NoReverse(self, other) == CmpInstant(self.timestamp, other.timestamp)

\* MinInstantEntry::partial_cmp, which cmp unwraps:
\* Reverse(self.timestamp).partial_cmp(&Reverse(other.timestamp))
partial_cmp(self, other) == CmpInstant(other.timestamp, self.timestamp)

\* BinaryHeap::peek / pop: an entry that is greatest under Ord; which one
\* of several equal entries is not specified
Peek(heap) == {e \in heap : \A f \in heap : partial_cmp(e, f) # "Less"}

\* BinaryHeap::push
Push(heap, timestamp, stask) == heap \cup {[timestamp |-> timestamp, task |-> stask]}

\* now_with_jitter(duration, None)
now_with_jitter(duration) == now + duration

ShutdownMenu == [interval : 1 .. 2, pause : {<<>>, <<1>>}]

\* Task::start: a new process is spawned and stored in self.process; when
\* the spawn fails the task is left as it was
TaskStart(tp, t, ok) ==
    IF ok THEN [tp EXCEPT ![t] = [process |-> TRUE, live |-> @.live + 1]]
    ELSE tp

\* Task::stop: self.process.take(), then kill and wait. res is "ok" or
\* "kill" (the kill failed: stop returns the error, the process lives on);
\* with no process it is Ok and does nothing
TaskStop(tp, t, res) ==
    IF tp[t].process
    THEN [tp EXCEPT ![t] = [process |-> FALSE,
                            live |-> IF res = "kill" THEN @.live ELSE @.live - 1]]
    ELSE tp

StopResults(tp, t) == IF tp[t].process THEN {"ok", "kill"} ELSE {"ok"}

\* nothing was taken from a heap yet
NoneTaken == [heap |-> "none", pause |-> 0, start |-> 0]

\* the entry was taken from the heap
Taken(last, heap, entry) == [last EXCEPT !.heap = heap, ![heap] = entry.timestamp]

\* Env::run has spawned the actor thread and applied the bridge; the body
\* f is running
InitActor ==
    /\ now = 0 /\ aqueue = <<>> /\ to_pause = {} /\ to_start = {}
    /\ apc = "wait" /\ anow = 0 /\ tproc = EmptyMap
    /\ rpc = "body" /\ tasks = {} /\ alast = NoneTaken

Tick ==
    /\ now < MaxTime
    /\ now' = now + 1
    /\ UNCHANGED <<aqueue, to_pause, to_start, apc, anow, tproc, rpc, tasks, alast>>
    /\ UNCHANGED OtherThanActor

\* Builder::spawn called by the body, from task.start() on: a failed start
\* returns the error; otherwise the task is sent to the actor if it has a
\* shutdown schedule, and inserted in Env.tasks
ActorBuilderSpawn ==
    /\ rpc = "body" /\ Cardinality(DOMAIN tproc) < MaxActorTasks
    /\ LET t == Cardinality(DOMAIN tproc) IN
       \E sd \in ShutdownMenu, with_shutdown \in BOOLEAN, ok \in BOOLEAN :
         /\ tproc' = TaskStart(Insert(tproc, t, [process |-> FALSE, live |-> 0]), t, ok)
         /\ aqueue' = IF ok /\ with_shutdown
                      THEN Append(aqueue, [task |-> t, shutdown |-> sd])
                      ELSE aqueue
         /\ tasks' = IF ok THEN tasks \cup {t} ELSE tasks
    /\ UNCHANGED <<now, to_pause, to_start, apc, anow, rpc, alast>>
    /\ UNCHANGED OtherThanActor

\* the body f returns
ActorBodyReturns ==
    /\ rpc = "body" /\ rpc' = "stop_tasks"
    /\ UNCHANGED <<now, aqueue, to_pause, to_start, apc, anow, tproc, tasks, alast>>
    /\ UNCHANGED OtherThanActor

\* Env::run: one iteration of `for (_, task) in self.tasks.drain()`, in the
\* order of the HashMap: lock, stop, log a failure
RunStopTask ==
    /\ rpc = "stop_tasks"
    /\ \E t \in tasks : \E res \in StopResults(tproc, t) :
         /\ tproc' = TaskStop(tproc, t, res)
         /\ tasks' = tasks \ {t}
    /\ UNCHANGED <<now, aqueue, to_pause, to_start, apc, anow, rpc, alast>>
    /\ UNCHANGED OtherThanActor

\* Env::run: the drain is over; what follows (partition, reverts, return)
\* touches no task, and the actor thread is neither signalled nor joined
RunStopsDone ==
    /\ rpc = "stop_tasks" /\ tasks = {}
    /\ rpc' = "done"
    /\ UNCHANGED <<now, aqueue, to_pause, to_start, apc, anow, tproc, tasks, alast>>
    /\ UNCHANGED OtherThanActor

\* the timestamps wakeup() looks at
Deadlines == {e.timestamp : e \in Peek(to_pause) \cup Peek(to_start)}

\* ActorState::run: the select! receives a task (the actor is waiting:
\* nothing is due), on_receive pushes it; pause_tasks begins
ActorReceive ==
    /\ apc = "wait" /\ Len(aqueue) > 0
    /\ \A d \in Deadlines : d > now
    /\ LET stask == Head(aqueue) IN
       to_pause' = Push(to_pause, now_with_jitter(stask.shutdown.interval), stask)
    /\ aqueue' = Tail(aqueue)
    /\ apc' = "pause" /\ anow' = now
    /\ UNCHANGED <<now, to_start, tproc, rpc, tasks, alast>>
    /\ UNCHANGED OtherThanActor

\* ActorState::run: the earlier of the two deadlines has passed (wakeup()
\* is zero, or the default arm of the select!); pause_tasks begins
ActorTimeout ==
    /\ apc = "wait"
    /\ \E d \in Deadlines : d <= now
    /\ apc' = "pause" /\ anow' = now
    /\ UNCHANGED <<now, aqueue, to_pause, to_start, tproc, rpc, tasks, alast>>
    /\ UNCHANGED OtherThanActor

\* pause_tasks, one iteration on a due entry: pop, stop; after a failed
\* stop the entry is pushed again; after a stop with a pause it goes to
\* to_start; with no pause the task is started at once and pushed again
PauseOne ==
    /\ apc = "pause"
    /\ \E entry \in Peek(to_pause) :
         /\ entry.timestamp <= anow
         /\ alast' = Taken(alast, "pause", entry)
         /\ LET stask == entry.task
                t == stask.task
                again == now_with_jitter(stask.shutdown.interval)
            IN \E res \in StopResults(tproc, t), ok \in BOOLEAN :
                 LET stopped == TaskStop(tproc, t, res)
                 IN IF res # "ok"
                    THEN /\ ok
                         /\ tproc' = stopped
                         /\ to_pause' = Push(to_pause \ {entry}, again, stask)
                         /\ to_start' = to_start
                    ELSE IF stask.shutdown.pause # <<>>
                    THEN /\ ok
                         /\ tproc' = stopped
                         /\ to_pause' = to_pause \ {entry}
                         /\ to_start' = Push(to_start,
                                             now_with_jitter(stask.shutdown.pause[1]), stask)
                    ELSE /\ tproc' = TaskStart(stopped, t, ok)
                         /\ to_pause' = Push(to_pause \ {entry}, again, stask)
                         /\ to_start' = to_start
    /\ UNCHANGED <<now, aqueue, apc, anow, rpc, tasks>>
    /\ UNCHANGED OtherThanActor

\* pause_tasks ends: the heap is empty or its top is not due; start_tasks
\* begins
PauseEnd ==
    /\ apc = "pause"
    /\ \A entry \in Peek(to_pause) : entry.timestamp > anow
    /\ apc' = "start" /\ anow' = now
    /\ UNCHANGED <<now, aqueue, to_pause, to_start, tproc, rpc, tasks, alast>>
    /\ UNCHANGED OtherThanActor

\* start_tasks, one iteration on a due entry: start; a failed start ends
\* the loop with the entry still in the heap, otherwise pop and push to
\* to_pause
StartOne ==
    /\ apc = "start"
    /\ \E entry \in Peek(to_start), ok \in BOOLEAN :
         /\ entry.timestamp <= anow
         /\ LET stask == entry.task
                t == stask.task
            IN /\ tproc' = TaskStart(tproc, t, ok)
               /\ alast' = IF ok THEN Taken(alast, "start", entry) ELSE alast
               /\ IF ok
                  THEN /\ to_start' = to_start \ {entry}
                       /\ to_pause' = Push(to_pause,
                                           now_with_jitter(stask.shutdown.interval), stask)
                       /\ apc' = apc
                  ELSE /\ UNCHANGED <<to_start, to_pause>>
                       /\ apc' = "wait"
    /\ UNCHANGED <<now, aqueue, anow, rpc, tasks>>
    /\ UNCHANGED OtherThanActor

\* start_tasks ends: the heap is empty or its top is not due
StartEnd ==
    /\ apc = "start"
    /\ \A entry \in Peek(to_start) : entry.timestamp > anow
    /\ apc' = "wait"
    /\ UNCHANGED <<now, aqueue, to_pause, to_start, anow, tproc, rpc, tasks, alast>>
    /\ UNCHANGED OtherThanActor

NextActor ==
    \/ Tick \/ ActorBuilderSpawn \/ ActorBodyReturns \/ RunStopTask \/ RunStopsDone
    \/ ActorReceive \/ ActorTimeout \/ PauseOne \/ PauseEnd \/ StartOne \/ StartEnd

IdleActor ==
    /\ now = 0 /\ aqueue = <<>> /\ to_pause = {} /\ to_start = {}
    /\ apc = "none" /\ anow = 0 /\ tproc = EmptyMap
    /\ rpc = "none" /\ tasks = {} /\ alast = NoneTaken

\* ------------------------------------------------------ agent handlers
\* Every handler holds the worker mutex from its first statement to its
\* response, so a handler is one step; a worker thread takes no lock.
\* A thread is [state, ok, data, interrupted]: state "running" or
\* "finished", ok the result of spawn_worker, data the plan it was given.

PlanIds == 0 .. 1

\* JoinHandle::is_finished
is_finished(ts, handle) == ts[handle].state = "finished"

\* a status that looks at the failure only (a fault C38_OnlyWhenPending
\* must detect)
status_IgnoresHandle(w, ts) == IF w.failure THEN "Failed" ELSE "Pending"

\* Worker::status
status(w, ts) ==
    IF w.handle = 0 /\ ~w.failure THEN "Pending"
    ELSE IF w.handle # 0 /\ w.interrupt /\ ~w.failure THEN "Running"
    ELSE IF w.handle # 0 /\ ~w.interrupt /\ is_finished(ts, w.handle) THEN "Stopped"
    ELSE IF w.handle # 0 /\ ~w.interrupt THEN "Stopping"
    ELSE "Failed"

\* the agent after main has built AppState: no worker, some plan
InitAgent ==
    /\ worker = [handle |-> 0, interrupt |-> FALSE, failure |-> FALSE]
    /\ state_data = 0 /\ threads = <<>>
    /\ resp = <<"none", "none", "none">> /\ nreq = 0

set_network_state ==
    /\ nreq < MaxRequests /\ nreq' = nreq + 1
    /\ \E d \in PlanIds :
         IF status(worker, threads) = "Pending"
         THEN /\ state_data' = d
              /\ resp' = <<"set_network_state", "OK", status(worker, threads)>>
         ELSE /\ state_data' = state_data
              /\ resp' = <<"set_network_state", "CONFLICT", status(worker, threads)>>
    /\ UNCHANGED <<worker, threads>>
    /\ UNCHANGED OtherThanAgent

\* worker_stop: interrupt.take() and try_send on it; a thread that is
\* still running finds the message (or the disconnected channel) in its
\* select!
worker_stop ==
    /\ nreq < MaxRequests /\ nreq' = nreq + 1
    /\ worker' = [worker EXCEPT !.interrupt = FALSE]
    /\ threads' = IF worker.interrupt /\ worker.handle # 0
                  THEN [threads EXCEPT ![worker.handle].interrupted = TRUE]
                  ELSE threads
    /\ resp' = <<"worker_stop", "OK", status(worker', threads')>>
    /\ UNCHANGED state_data
    /\ UNCHANGED OtherThanAgent

worker_run ==
    /\ nreq < MaxRequests /\ nreq' = nreq + 1
    /\ IF status(worker, threads) = "Pending"
       THEN /\ threads' = Append(threads, [state |-> "running", ok |-> TRUE,
                                           data |-> state_data,
                                           interrupted |-> FALSE])
            /\ worker' = [worker EXCEPT !.handle = Len(threads) + 1,
                                        !.interrupt = TRUE]
            /\ resp' = <<"worker_run", "OK", status(worker', threads')>>
       ELSE /\ UNCHANGED <<worker, threads>>
            /\ resp' = <<"worker_run", "CONFLICT", status(worker, threads)>>
    /\ UNCHANGED state_data
    /\ UNCHANGED OtherThanAgent

\* worker_status: a Stopped worker is joined, its error is kept as the
\* failure; the answer is the status after that
worker_status ==
    /\ nreq < MaxRequests /\ nreq' = nreq + 1
    /\ worker' = IF status(worker, threads) = "Stopped"
                 THEN [worker EXCEPT !.handle = 0,
                                     !.failure = @ \/ ~threads[worker.handle].ok]
                 ELSE worker
    /\ resp' = <<"worker_status", "OK", status(worker', threads)>>
    /\ UNCHANGED <<state_data, threads>>
    /\ UNCHANGED OtherThanAgent

\* spawn_worker returns: after the interrupt with Ok or with the errors it
\* collected; by itself (failed deploy or launch, a message on the error
\* bus) with an error
SpawnWorkerReturns ==
    /\ \E i \in DOMAIN threads, ok \in BOOLEAN :
         /\ threads[i].state = "running"
         /\ ok => threads[i].interrupted
         /\ threads' = [threads EXCEPT ![i].state = "finished", ![i].ok = ok]
    /\ UNCHANGED <<worker, state_data, resp, nreq>>
    /\ UNCHANGED OtherThanAgent

NextAgent ==
    \/ set_network_state \/ worker_stop \/ worker_run \/ worker_status
    \/ SpawnWorkerReturns

IdleAgent ==
    /\ worker = [handle |-> 0, interrupt |-> FALSE, failure |-> FALSE]
    /\ state_data = 0 /\ threads = <<>>
    /\ resp = <<"idle", "none", "none">> /\ nreq = 0

\* ------------------------------------------------------ specifications
\* no sweep and no parse is under way under the other specifications
IdleSweep ==
    /\ sprefix = <<>> /\ skernel = [netns |-> <<>>, links |-> <<>>]
    /\ sres = [fn \in SweepFns |-> "none"]
    /\ slisted = [fn \in SweepFns |-> {}]
    /\ sgone = {} /\ slog = <<>>

IdleParse == pin = <<>> /\ pout = PoutNone

\* no library environment exists under the other specifications
IdleEnv ==
    /\ env = EnvNew(TRUE) /\ epool = 0 /\ epc = "none" /\ ekernel = {}
    /\ ecreated = {} /\ eprocs = EmptyMap /\ epart = "none"
    /\ erst = "none" /\ ehist = <<>>

\* no partition agent runs under the other specifications
\* The same loop with the position of the agent thread inside apply() and
\* revert() made visible, so that the stop signal can be sent while either
\* of them runs: ppc is "apply" between the first select! and the return
\* of task.apply(), "revert" between the second select! and the return of
\* task.revert().

\* the first select!: the interval elapses with no stop signal
IntervalElapsed ==
    /\ ppc = "idle" /\ sender # "sent" /\ cycles < MaxCycles
    /\ ppc' = "apply" /\ cycles' = cycles + 1
    /\ UNCHANGED <<task, rules, sender, stopper, plog>>
    /\ UNCHANGED OtherThanPart

\* task.apply() returns, with Ok or with the error that is logged
ApplyReturns ==
    /\ ppc = "apply"
    /\ \E k \in 0 .. Len(ApplyOrder(task)) :
         LET a == apply(task, rules, k)
         IN /\ task' = a.task /\ rules' = a.rules
            /\ plog' = Append(plog, <<"apply", a.ok>>)
    /\ ppc' = "active"
    /\ UNCHANGED <<sender, stopper, cycles>>
    /\ UNCHANGED OtherThanPart

\* the second select!: the duration elapses with no stop signal
DurationElapsed ==
    /\ ppc = "active" /\ sender # "sent"
    /\ ppc' = "revert"
    /\ UNCHANGED <<task, rules, sender, stopper, cycles, plog>>
    /\ UNCHANGED OtherThanPart

\* task.revert() returns, with Ok or with the error that is logged
RevertReturns ==
    /\ ppc = "revert"
    /\ \E deleted \in SUBSET task.enabled :
         LET a == revert(task, rules, deleted)
         IN /\ task' = a.task /\ rules' = a.rules
            /\ plog' = Append(plog, <<"revert", a.ok>>)
    /\ ppc' = "idle"
    /\ UNCHANGED <<sender, stopper, cycles>>
    /\ UNCHANGED OtherThanPart

NextStop ==
    \/ IntervalElapsed \/ ApplyReturns \/ DurationElapsed \/ RevertReturns
    \/ IdleStop \/ ActiveStop \/ StopSend \/ StopJoin

IdlePart ==
    /\ task = [partition |-> <<>>, instances |-> <<>>, enabled |-> {}]
    /\ rules = EmptyMap /\ ppc = "none" /\ sender = "none"
    /\ stopper = "none" /\ cycles = 0 /\ plog = <<>>

\* no planner invocation is under way under the worker's specification
IdlePlan == gin = [n |-> 0, hosts |-> 0, per_bridge |-> 1, pool |-> 0, qdisc |-> <<>>]
            /\ gout = GoutNone

InitSpecWorker == InitWorker /\ IdlePlan /\ IdlePart /\ IdleEnv /\ IdleSweep /\ IdleParse /\ IdleSys
    /\ IdleActor /\ IdleAgent

SpecWorker == InitSpecWorker /\ [][NextWorker]_vars

\* the steps of a worker that has no commands: no child, no reader thread
\* and no message on the error bus
NextNet ==
    \/ Deploy \/ Launch \/ SelectInterrupt \/ StopKill \/ StopWait \/ Cleanup
    \/ SendInterrupt

InitSpecNet == InitNet /\ IdlePlan /\ IdlePart /\ IdleEnv /\ IdleSweep /\ IdleParse /\ InitSys
    /\ IdleActor /\ IdleAgent

SpecNet == InitSpecNet /\ [][NextNet]_vars

\* the worker is not running under the planner's specification
IdleWorker ==
    /\ conf = Config(1) /\ data = DataNew /\ commands = EmptyMap
    /\ wpc = "idle" /\ kernel = {} /\ master = EmptyMap
    /\ running = EmptyMap /\ procs = EmptyMap /\ readers = EmptyMap
    /\ bus = 0 /\ interrupt = "none" /\ results = 0 /\ hist = <<>>

InitSpecPlan == InitPlan /\ IdleWorker /\ IdlePart /\ IdleEnv /\ IdleSweep /\ IdleParse /\ IdleSys
    /\ IdleActor /\ IdleAgent

SpecPlan == InitSpecPlan /\ [][NextPlan]_vars


InitSpecPart == InitPart /\ IdlePlan /\ IdleWorker /\ IdleEnv /\ IdleSweep /\ IdleParse /\ IdleSys
    /\ IdleActor /\ IdleAgent

SpecPart == InitSpecPart /\ [][NextPart]_vars

\* what a return of task.apply() / task.revert() is for the position of
\* the agent thread: the steps of ApplyReturns and of RevertReturns, which
\* are possible in every state in which the thread is inside the call
ApplyEnds == ppc = "apply" /\ ppc' = "active"

RevertEnds == ppc = "revert" /\ ppc' = "idle"

\* The agent thread and the caller of Background::stop are scheduled by the
\* operating system: a thread that can take a step eventually takes it.
\* apply() and revert() return because every kernel command terminates;
\* a select! with a message waiting returns it; join returns once the
\* thread has exited. The elapsing of a timer is given no fairness.
SpecStop ==
    /\ InitSpecPart /\ [][NextStop]_vars
    /\ WF_ppc(ApplyEnds) /\ WF_ppc(RevertEnds)
    /\ WF_vars(IdleStop) /\ WF_vars(ActiveStop) /\ WF_vars(StopJoin)

InitSpecCore == InitCore /\ IdlePlan /\ IdlePart /\ IdleEnv /\ IdleSweep /\ IdleParse /\ IdleSys
    /\ IdleActor /\ IdleAgent

SpecCore == InitSpecCore /\ [][NextCore]_vars

InitSpecActor == InitActor /\ IdlePlan /\ IdleWorker /\ IdlePart /\ IdleEnv /\ IdleSweep /\ IdleParse
    /\ IdleSys /\ IdleAgent

SpecActor == InitSpecActor /\ [][NextActor]_vars

InitSpecAgent == InitAgent /\ IdlePlan /\ IdleWorker /\ IdlePart /\ IdleEnv /\ IdleSweep /\ IdleParse
    /\ IdleSys /\ IdleActor

SpecAgent == InitSpecAgent /\ [][NextAgent]_vars

InitSpecEnv == InitEnv /\ IdlePlan /\ IdleWorker /\ IdlePart /\ IdleSweep /\ IdleParse /\ IdleSys
    /\ IdleActor /\ IdleAgent

SpecEnv == InitSpecEnv /\ [][NextEnv]_vars

InitSpecSweep == InitSweep /\ IdlePlan /\ IdleWorker /\ IdlePart /\ IdleEnv /\ IdleParse /\ IdleSys
    /\ IdleActor /\ IdleAgent

SpecSweep == InitSpecSweep /\ [][NextSweep]_vars

InitSpecParse == InitParse /\ IdlePlan /\ IdleWorker /\ IdlePart /\ IdleEnv /\ IdleSweep /\ IdleSys
    /\ IdleActor /\ IdleAgent

SpecParse == InitSpecParse /\ [][NextParse]_vars

\* -------------------------------------------------------------- claims
\* what the log says about the run of the worker
HistHas(e) == \E p \in DOMAIN hist : hist[p] = e

DeploySucceeded == HistHas(Ret("core::deploy", TRUE))

TeardownDone == HistHas(Ret("core::cleanup", TRUE))

RevertVerbs == {"namespace_revert", "bridge_revert", "vxlan_revert", "veth_revert"}

InstanceVerbs == {"namespace_apply", "veth_apply", "qdisc_apply"}

\* every revert step of the teardown succeeded
EveryRevertSucceeded ==
    \A p \in DOMAIN hist : hist[p][1] \in RevertVerbs => hist[p][4] = "ok"

\* no revert step failed on an object that was there
NoRevertFailed ==
    \A p \in DOMAIN hist : hist[p][1] \in RevertVerbs => hist[p][4] # "err"

\* deploy failed at a per-instance step
FailedAtInstanceStep ==
    \E p \in DOMAIN hist : hist[p][1] \in InstanceVerbs /\ hist[p][4] = "err"

\* C1: after a successful deploy and a teardown whose every revert step
\* succeeded, no kernel object of the plan remains (no namespace, bridge,
\* instance veth, connector veth or vxlan device).
C1_NothingLeftAfterTeardown ==
    (DeploySucceeded /\ TeardownDone /\ EveryRevertSucceeded) => kernel = {}

\* C2: when deploy failed at a per-instance step, then once teardown has
\* run (no revert failing on an object that was there) no kernel object of
\* the plan remains, the partially configured instance's included, and the
\* run reports an error.
C2_NothingLeftAfterFailedDeploy ==
    (FailedAtInstanceStep /\ TeardownDone /\ NoRevertFailed)
        => kernel = {} /\ results > 0

\* C3: when the stop signal arrives while the agent is ACTIVE, REVERT runs
\* before the thread exits: once Background::stop has returned the
\* remembered set is empty and no DROP rule of the agent is installed.
C3_RevertOnStopWhileActive ==
    (stopper = "returned" /\ ppc = "stopped_active")
        => task.enabled = {} /\ rules = EmptyMap

\* bridges i and j are joined by their own connector pair, one end
\* enslaved to each
Joined(i, j) ==
    /\ C0(i, j) \in kernel /\ C1(i, j) \in kernel
    /\ C0(i, j) \in DOMAIN master /\ master[C0(i, j)] = i
    /\ C1(i, j) \in DOMAIN master /\ master[C1(i, j)] = j

\* deploy has just succeeded
JustDeployed == wpc = "launch"

\* the connector ends in the kernel
Connectors == {l \in kernel : l[1] \in {"c0", "c1"}}

StopCalled == HistHas(Call("supervisor::stop"))

StopReturned == HistHas(Ret("supervisor::stop", TRUE))

\* C5: supervisor::stop attempts to kill every child of the running map,
\* also when the kill or the wait of another child fails, and the running
\* map is empty when it returns.
C5_StopKillsEveryChild ==
    /\ StopCalled => \A i \in DOMAIN procs : procs[i].killAttempted
    /\ StopReturned => running = EmptyMap

\* stop has returned; the kill of one child failed, a later child was
\* killed all the same, and a wait failed
C5_Witness ==
    /\ StopReturned /\ running = EmptyMap
    /\ \E i \in DOMAIN procs, j \in DOMAIN procs :
         /\ i < j /\ procs[i].killFailed
         /\ procs[j].killAttempted /\ ~procs[j].killFailed
    /\ \E k \in DOMAIN procs : procs[k].waitFailed

\* C6: stop returns, and teardown starts, only after both reader threads
\* of every piped child have been joined: no reader thread is still
\* running once stop has returned.
C6_ReadersJoinedBeforeTeardown ==
    StopReturned => \A r \in DOMAIN readers : readers[r] # "running"

CountOf(e) == Cardinality({p \in DOMAIN hist : hist[p] = e})

Events == {Recv("interrupt"), Recv("receiver_errors")}

\* C7: after a successful deploy and launch nothing happens until the
\* first event of the interrupt channel or the error bus; on either event
\* the supervisor is stopped and then teardown is invoked; teardown is
\* invoked exactly once per run, also when deploy or launch failed.
C7_SelectStopTeardown ==
    /\ CountOf(Call("core::cleanup")) <= 1
    /\ wpc = "done" => CountOf(Call("core::cleanup")) = 1
                       /\ hist[Len(hist)] = Ret("core::cleanup", TRUE)
    /\ HistHas(Recv("interrupt")) => interrupt = "taken"
    /\ \A p \in DOMAIN hist :
         /\ hist[p] = Ret("supervisor::launch", TRUE) /\ p < Len(hist)
              => hist[p + 1] \in Events
         /\ hist[p] \in Events
              => /\ p > 1 /\ hist[p - 1] = Ret("supervisor::launch", TRUE)
                 /\ p < Len(hist) => hist[p + 1] = Call("supervisor::stop")
         /\ hist[p] = Call("supervisor::stop")
              => p > 1 /\ (\/ hist[p - 1] \in Events
                           \/ hist[p - 1] = Ret("supervisor::launch", FALSE))
         /\ hist[p] = Ret("supervisor::stop", TRUE) /\ p < Len(hist)
              => hist[p + 1] = Call("core::cleanup")
         /\ hist[p] = Call("core::cleanup")
              => p > 1 /\ (\/ hist[p - 1] = Ret("supervisor::stop", TRUE)
                           \/ hist[p - 1] = Ret("core::deploy", FALSE))

\* a run that was ended by a message on the error bus has finished
C7_Witness ==
    /\ wpc = "done" /\ HistHas(Recv("receiver_errors"))
    /\ StopReturned /\ CountOf(Call("core::cleanup")) = 1

\* C8: for every instance index i of the plan, bridge i / per_bridge is a
\* key of the plan's bridges, and it is the bridge instance i's host veth
\* is enslaved to.
C8_BridgeOfInstance ==
    \A i \in DOMAIN data.veth :
        /\ (i \div conf.per_bridge) \in DOMAIN data.bridges
        /\ Vh(i) \in DOMAIN master => master[Vh(i)] = i \div conf.per_bridge

\* a deploy has attached instance 2 to bridge 1 (two instances per bridge)
C8_Witness ==
    /\ JustDeployed /\ conf.per_bridge = 2 /\ 2 \in DOMAIN data.veth
    /\ Vh(2) \in DOMAIN master /\ master[Vh(2)] = 1

\* the addresses of one planner invocation: <<host, kind, key>> names the
\* bridge or the veth that holds one
Holders ==
    UNION {{<<h, "b", k>> : k \in DOMAIN gout.plans[h].bridges}
             \cup {<<h, "v", k>> : k \in DOMAIN gout.plans[h].veth} :
           h \in DOMAIN gout.plans}

AddrOf(e) ==
    IF e[2] = "b" THEN gout.plans[e[1]].bridges[e[3]].bridge.addr
    ELSE gout.plans[e[1]].veth[e[3]].veth.addr

\* C9: the addresses handed out by one planner invocation are pairwise
\* distinct, within a plan and across the plans of different hosts.
C9_AddressesDistinct ==
    \A e1 \in Holders, e2 \in Holders : e1 # e2 => AddrOf(e1) # AddrOf(e2)

\* two hosts have got a plan each, with a bridge and an instance each
C9_Witness ==
    /\ gout.status = "ok" /\ Len(gout.plans) = 2
    /\ \A h \in 1 .. 2 : /\ gout.plans[h].bridges # EmptyMap
                         /\ gout.plans[h].veth # EmptyMap

RECURSIVE TotalVeth(_)
TotalVeth(plans) ==
    IF Len(plans) = 0 THEN 0
    ELSE Cardinality(DOMAIN Head(plans).veth) + TotalVeth(Tail(plans))

\* C10: for N instances over H hosts the planner returns H plans; the plan
\* of host h has as many instances as its chunk (N / H, and N mod H more
\* on host 0; the chunks sum to N), ceil(chunk / per_bridge) bridges, one
\* vxlan when H > 1 and none when H = 1, and a qdisc entry for the
\* instances for which the shared stream still had a value.
C10_PlanShape ==
    gout.status = "ok" =>
        LET H == gin.hosts
            N == gin.n
            pb == gin.per_bridge
            size(h) == IF h = 1 THEN (N \div H) + (N % H) ELSE N \div H
            drawn(h) == IF h = 1 THEN 0
                        ELSE (N \div H) + (N % H) + (h - 2) * (N \div H)
        IN /\ Len(gout.plans) = H
           /\ TotalVeth(gout.plans) = N
           /\ \A h \in 1 .. H :
                LET d == gout.plans[h] IN
                /\ DOMAIN d.veth = 0 .. size(h) - 1
                /\ Cardinality(DOMAIN d.bridges) = (size(h) + pb - 1) \div pb
                /\ Cardinality(DOMAIN d.vxlan) = IF H > 1 THEN 1 ELSE 0
                /\ DOMAIN d.qdisc =
                     {i \in DOMAIN d.veth : drawn(h) + i < Len(gin.qdisc)}

\* three instances over two hosts with a stream of one value: host 0 has
\* two instances, the first with a qdisc; host 1 has one, without
C10_Witness ==
    /\ gout.status = "ok" /\ gin.hosts = 2 /\ gin.n = 3
    /\ DOMAIN gout.plans[1].veth = {0, 1} /\ DOMAIN gout.plans[1].qdisc = {0}
    /\ DOMAIN gout.plans[2].veth = {0} /\ DOMAIN gout.plans[2].qdisc = {}

\* the instance indices of all plans of one planner invocation
AllIndices == UNION {DOMAIN gout.plans[h].veth : h \in DOMAIN gout.plans}

\* C11: the planner splits 0..N into H pairwise disjoint chunks: the veth
\* keys of the plans of different hosts are pairwise distinct, their union
\* has N elements, and host 0 holds N - (H-1) * floor(N/H) of them.
C11_IndicesPartitioned ==
    gout.status = "ok" =>
        /\ \A h1 \in DOMAIN gout.plans, h2 \in DOMAIN gout.plans :
             h1 # h2 => DOMAIN gout.plans[h1].veth \cap DOMAIN gout.plans[h2].veth = {}
        /\ Cardinality(AllIndices) = gin.n
        /\ Cardinality(DOMAIN gout.plans[1].veth)
             = gin.n - (gin.hosts - 1) * (gin.n \div gin.hosts)

\* C12: with more than one host, the vxlan of the plan of host h carries
\* the configured id, port and group and the carrier device of host h.
C12_VxlanOfHost ==
    (gout.status = "ok" /\ gin.hosts > 1) =>
        \A h \in DOMAIN gout.plans :
            LET cfg == Config(gin.per_bridge)
                x == gout.plans[h].vxlan
            IN /\ DOMAIN x = {0}
               /\ x[0].vxlan.id = cfg.vxlan_id
               /\ x[0].vxlan.port = cfg.vxlan_port
               /\ x[0].vxlan.group = cfg.vxlan_multicast_group
               /\ x[0].vxlan.device = Hosts(gin.hosts)[h - 1].vxlan_device

Planned == gout.status # "none"

\* C13: for a per_bridge outside (0, PerBridgeLimit] planning fails with an
\* error and returns no plan.
C13_PerBridgeValidated ==
    (Planned /\ (gin.per_bridge <= 0 \/ gin.per_bridge > PerBridgeLimit))
        => gout.status = "err" /\ gout.plans = <<>>

\* the addresses the hosts from the h-th on need: one per instance and one
\* per bridge
RECURSIVE NeededFrom(_)
NeededFrom(h) ==
    IF h > gin.hosts THEN 0
    ELSE LET size == IF h = 1 THEN (gin.n \div gin.hosts) + (gin.n % gin.hosts)
                     ELSE gin.n \div gin.hosts
         IN size + ((size + gin.per_bridge - 1) \div gin.per_bridge)
            + NeededFrom(h + 1)

PoolTooSmall ==
    gin.hosts >= 1 /\ gin.per_bridge >= 1 /\ gin.pool < NeededFrom(1)

\* C14: when the pool has fewer addresses than the bridges and instances
\* of all hosts need, the planner fails and returns no plan at all, and no
\* kernel object has been made.
C14_ExhaustedPoolNoPlan ==
    (Planned /\ PoolTooSmall)
        => gout.status = "err" /\ gout.plans = <<>> /\ kernel = {}

\* the pool was enough for host 0 and not for host 1, and planning failed
C14_Witness ==
    /\ Planned /\ PoolTooSmall /\ gin.hosts = 2 /\ gin.n = 2
    /\ gin.per_bridge = 1 /\ gin.pool = 3
    /\ gout.status = "err" /\ gout.plans = <<>>

\* a plan without the status of its entries
Frozen(d) ==
    [vxlan |-> [k \in DOMAIN d.vxlan |-> d.vxlan[k].vxlan],
     bridges |-> [k \in DOMAIN d.bridges |-> d.bridges[k].bridge],
     veth |-> [k \in DOMAIN d.veth |-> d.veth[k].veth],
     qdisc |-> [k \in DOMAIN d.qdisc |-> d.qdisc[k].qdisc]]

\* C15: core::deploy and core::cleanup never add or remove a key of vxlan,
\* bridges, veth or qdisc and never change an entry's names, addresses or
\* options: only the status of an entry changes.
C15_PlanImmutable == [][Frozen(data') = Frozen(data)]_vars

\* both have acted on a plan with entries: deploy marked them Deployed and
\* cleanup marked the bridges and instances Pending again
C15_Witness ==
    /\ DeploySucceeded /\ TeardownDone /\ EveryRevertSucceeded
    /\ data.bridges # EmptyMap /\ data.veth # EmptyMap /\ data.qdisc # EmptyMap
    /\ \A b \in DOMAIN data.bridges : data.bridges[b].state = Pending
    /\ \A i \in DOMAIN data.qdisc : data.qdisc[i].state = Deployed

\* the reverts logged since core::cleanup was called
RevertsLogged(verb, k) ==
    Cardinality({p \in DOMAIN hist : hist[p][1] = verb /\ hist[p][2] = k})

EnvRevertVerbs == {"Veth::revert", "Namespace::revert", "Bridge::revert"}

\* Env::run has gone through the end of a run
EnvRunEnded == epc = "returned" /\ erst = "ok"

\* C17: with revert disabled the end of a run still calls stop on every
\* task and stops the partition agent, but issues no revert of a veth, a
\* namespace or the bridge: every kernel object created during the run is
\* left in place.
C17_NoRevertKeepsAll ==
    ~env.revert =>
        /\ ekernel = ecreated
        /\ \A p \in DOMAIN ehist : ehist[p][1] \notin EnvRevertVerbs
        /\ EnvRunEnded =>
             /\ env.tasks = {}
             /\ \A i \in DOMAIN eprocs : eprocs[i].stopCalled
             /\ epart # "running"

\* a run without revert has ended: the task was stopped, the partition
\* agent was stopped, and the bridge, the namespace and the veth pair of
\* the instance are still there
C17_Witness ==
    /\ EnvRunEnded /\ ~env.revert /\ epart = "stopped"
    /\ 0 \in DOMAIN eprocs /\ eprocs[0].stopCalled /\ ~eprocs[0].alive
    /\ {Br(0), Ns(0), Vh(0), Vg(0)} \subseteq ekernel

\* C18: with revert enabled, whenever Env::run returns an error because a
\* forward step failed, every kernel object created before the failure
\* has been reverted when run returns.
C18_ErrorMeansReverted ==
    (epc = "returned" /\ erst = "err" /\ env.revert) => ekernel = {}

\* how each sweep recognises the names of a prefix: namespaces and bridges
\* begin with it, veth names carry it after "v-"
Selected(fn, name) ==
    IF fn = "veth_cleanup"
    THEN StartsWith(name, <<"v", "-">> \o sprefix)
    ELSE StartsWith(name, sprefix)

HasPrefix(name) ==
    StartsWith(name, sprefix) \/ StartsWith(name, <<"v", "-">> \o sprefix)

\* C19: once a sweep function has returned, every namespace, bridge or veth
\* that it listed and whose name carries the given prefix is gone from the
\* kernel, and nothing whose name does not carry the prefix has been removed.
C19_SweepDeletesPrefixed ==
    \A fn \in SweepFns :
        sres[fn] # "none" =>
            /\ \A n \in slisted[fn] : Selected(fn, n) => n \notin KernelNames(skernel)
            /\ \A n \in sgone : HasPrefix(n)

\* float (float)* interval <dur> duration <dur>, and nothing after it
Grammatical(s) ==
    \E k \in 1 .. Len(s) :
        /\ Len(s) = k + 4
        /\ \A i \in 1 .. k : ParseF64(s[i]).ok
        /\ s[k + 1] = "interval"
        /\ ParseDuration(s[k + 2]).ok
        /\ s[k + 3] = "duration"
        /\ ParseDuration(s[k + 4]).ok

BucketSum(s) == SumOf([i \in 1 .. Len(s) - 4 |-> ParseF64(s[i]).value])

\* C20: Partition::parse returns Ok only for an input of the form
\* float (float)* interval <dur> duration <dur> whose buckets sum to 1.0;
\* a missing token, a token after the duration value, a non-numeric bucket,
\* another sum or an unknown keyword gives an error.
C20_ParseAcceptsOnlyGrammar ==
    pout.status = "ok" => Grammatical(pin) /\ BucketSum(pin) = BucketDen

\* C21: every schedule Partition::parse accepts has buckets that sum to 1.0,
\* an interval greater than zero and a duration greater than zero.
C21_AcceptedScheduleIsPositive ==
    pout.status = "ok" =>
        /\ SumOf(pout.buckets) = BucketDen
        /\ pout.interval > 0
        /\ pout.duration > 0

DeployVerbs ==
    {"bridge_apply", "bridge_connnect", "vxlan_apply"} \cup InstanceVerbs

\* the place of a deploy verb in the order of section 4.D: its stage, then
\* the index of its bridge or instance, then the step within the instance
StageOf(e) ==
    CASE e[1] = "bridge_apply" -> <<1, e[2], 0>>
      [] e[1] = "bridge_connnect" -> <<2, e[2], 0>>
      [] e[1] = "vxlan_apply" -> <<3, 0, 0>>
      [] e[1] = "namespace_apply" -> <<4, e[2], 1>>
      [] e[1] = "veth_apply" -> <<4, e[2], 2>>
      [] e[1] = "qdisc_apply" -> <<4, e[2], 3>>

Before(a, b) ==
    \/ a[1] < b[1]
    \/ a[1] = b[1] /\ a[2] < b[2]
    \/ a[1] = b[1] /\ a[2] = b[2] /\ a[3] < b[3]

VerbsLogged(verb) == Cardinality({p \in DOMAIN hist : hist[p][1] = verb})

\* C22: the kernel verbs of core::deploy are issued one after the other in
\* the stage order: the bridges in ascending index, then the connectors,
\* then the vxlan on bridge 0, then per instance in ascending index its
\* namespace, its veth and its qdisc; a successful deploy has issued the
\* verb of every bridge, vxlan, instance and qdisc of the plan.
C22_DeployStageOrder ==
    /\ \A p \in DOMAIN hist, q \in DOMAIN hist :
           (p < q /\ hist[p][1] \in DeployVerbs /\ hist[q][1] \in DeployVerbs)
               => Before(StageOf(hist[p]), StageOf(hist[q]))
    /\ \A p \in DOMAIN hist : hist[p][1] = "vxlan_apply" => hist[p][3] = 0
    /\ DeploySucceeded =>
           /\ VerbsLogged("bridge_apply") = Cardinality(DOMAIN data.bridges)
           /\ VerbsLogged("vxlan_apply") = Cardinality(DOMAIN data.vxlan)
           /\ VerbsLogged("namespace_apply") = Cardinality(DOMAIN data.veth)
           /\ VerbsLogged("veth_apply") = Cardinality(DOMAIN data.veth)
           /\ VerbsLogged("qdisc_apply") = Cardinality(DOMAIN data.qdisc)

\* a successful deploy of two bridges, their connector, a vxlan and two
\* instances with a qdisc each
C22_Witness ==
    /\ JustDeployed
    /\ VerbsLogged("bridge_apply") >= 2
    /\ VerbsLogged("bridge_connnect") >= 1
    /\ VerbsLogged("vxlan_apply") = 1
    /\ VerbsLogged("qdisc_apply") >= 2

\* deploy has just returned an error: teardown has not begun
DeployJustFailed ==
    HistHas(Ret("core::deploy", FALSE)) /\ ~HistHas(Call("core::cleanup"))

\* the positions in the log of the steps of deploy: its kernel verbs and
\* its two lookups of a bridge that can fail
DeploySteps ==
    {p \in DOMAIN hist : hist[p][1] \in DeployVerbs \cup {"no_bridges", "no_bridge"}}

\* the apply step of an entry has completed
ApplyDone(verb, k) ==
    \E p \in DOMAIN hist :
        hist[p][1] = verb /\ hist[p][2] = k /\ hist[p][4] = "ok"

StateIs(field, k, verb) ==
    data[field][k].state = (IF ApplyDone(verb, k) THEN Deployed ELSE Pending)

\* C23: when a step of deploy fails, deploy returns the error at once: the
\* failed step is the last one issued and was issued once; at that moment an
\* entry is Deployed exactly if its apply step completed, so the failing
\* entry and every later entry are Pending.
C23_DeployStopsAtFailure ==
    DeployJustFailed =>
        /\ \E p \in DeploySteps :
               /\ hist[p][4] = "err"
               /\ \A q \in DeploySteps : q # p => q < p /\ hist[q][4] = "ok"
               /\ hist[p + 1] = Ret("core::deploy", FALSE)
               /\ \A q \in DeploySteps :
                      q # p => <<hist[q][1], hist[q][2]>> # <<hist[p][1], hist[p][2]>>
        /\ \A b \in DOMAIN data.bridges : StateIs("bridges", b, "bridge_apply")
        /\ \A x \in DOMAIN data.vxlan : StateIs("vxlan", x, "vxlan_apply")
        /\ \A i \in DOMAIN data.veth : StateIs("veth", i, "veth_apply")
        /\ \A i \in DOMAIN data.qdisc : StateIs("qdisc", i, "qdisc_apply")

\* deploy failed at the veth of the second instance: the first instance is
\* Deployed, the second and the third are Pending
C23_Witness ==
    /\ DeployJustFailed
    /\ HistHas(<<"veth_apply", 1, BridgeOf(conf, 1), "err">>)
    /\ data.veth[0].state = Deployed
    /\ data.veth[1].state = Pending
    /\ 2 \in DOMAIN data.veth

\* the place of a revert verb in the reverse of the deploy order
RevertStage(verb) ==
    CASE verb = "veth_revert" -> 1
      [] verb = "namespace_revert" -> 2
      [] verb = "bridge_disconnect" -> 3
      [] verb = "vxlan_revert" -> 4
      [] verb = "bridge_revert" -> 5

\* C24: teardown issues its reverts in the reverse of the deploy order: every
\* instance veth before any namespace, the namespaces before the bridge
\* connectors, the connectors before the vxlan, the vxlan before any bridge.
C24_TeardownReverseOrder ==
    \A p \in DOMAIN hist, q \in DOMAIN hist :
        (/\ p < q
         /\ hist[p][1] \in RevertVerbs \cup {"bridge_disconnect"}
         /\ hist[q][1] \in RevertVerbs \cup {"bridge_disconnect"})
            => RevertStage(hist[p][1]) <= RevertStage(hist[q][1])

\* C25: before the first bridge of a plan is created the three sysctls have
\* their target values: bridge-nf-call-iptables 0, gc_thresh3 2048000 and
\* IPv4 forwarding on.
C25_SysctlsSetBeforeBridges ==
    (\E p \in DOMAIN hist : hist[p][1] = "bridge_apply") => sysctls = SysctlTarget

\* the ports of bridge b: the links in the kernel that are enslaved to it
Ports(b) == {l \in DOMAIN master : l \in kernel /\ master[l] = b}

\* The port limit of a bridge is also the largest per_bridge a plan may use
\* (both are 1000 in the source).  The plans of this model use per_bridge in
\* 1 .. MaxPerBridge, so the limit is scaled to MaxPerBridge with them.
PortLimit == MaxPerBridge

\* C26: after deploy no bridge has more ports than the port limit, counting
\* the host ends of its instances' veths, the connector ends attached to it
\* and, on bridge 0, the vxlan device, for every admissible per_bridge.
C26_PortsWithinLimit ==
    JustDeployed =>
        \A b \in DOMAIN data.bridges : Cardinality(Ports(b)) <= PortLimit

\* the veths of the task and the bucket each lies in
Veths(t) == Range(t.instances)

BucketOf(t, v) ==
    LET bs == Buckets(t.partition, t.instances, Len(t.instances))
    IN CHOOSE j \in 1 .. Len(bs) : v \in Range(bs[j])

\* the ordered pairs of veths that lie in different buckets
CrossPairs(t) ==
    {x \in Veths(t) \X Veths(t) : BucketOf(t, x[1]) # BucketOf(t, x[2])}

\* the number of DROP rules in from's namespace on the address of to
RuleCount(r, x) == IF x \in DOMAIN r THEN r[x] ELSE 0

LastCall == IF plog = <<>> THEN <<"none", TRUE>> ELSE plog[Len(plog)]

\* C27: a successful APPLY leaves as remembered set exactly the ordered
\* pairs (from, to) of veths in different buckets, and it installs one DROP
\* rule for each of them, in from's namespace on the address of to, and no
\* rule for two veths of the same bucket.
C27_ApplyInstallsCrossPairs ==
    [][plog' = Append(plog, <<"apply", TRUE>>) =>
          /\ task'.enabled = CrossPairs(task)
          /\ DOMAIN rules' \subseteq Veths(task) \X Veths(task)
          /\ \A x \in Veths(task) \X Veths(task) :
                 RuleCount(rules', x) =
                     RuleCount(rules, x) + (IF x \in CrossPairs(task) THEN 1 ELSE 0)]_vars

\* an APPLY has succeeded on three veths in two buckets: rules are
\* installed, and two of the veths share a bucket
C27_Witness ==
    /\ ppc = "active" /\ LastCall = <<"apply", TRUE>>
    /\ Len(task.instances) = 3
    /\ task.enabled # {}
    /\ \E x \in Veths(task) \X Veths(task) :
           x[1] # x[2] /\ BucketOf(task, x[1]) = BucketOf(task, x[2])

\* APPLY has run at least once
Applied_Once == plog # <<>>

\* the buckets APPLY makes of the veth list
TaskBuckets == Buckets(task.partition, task.instances, Len(task.instances))

\* ceil(ratio * N) for ratio = num / BucketDen: the least k with
\* k / 1 >= num * N / BucketDen
CeilOf(num, N) ==
    CHOOSE k \in 0 .. N :
        k * BucketDen >= num * N /\ (k = 0 \/ (k - 1) * BucketDen < num * N)

\* the number of veths in the buckets before bucket b
TakenBefore(bs, b) == Len(Concat([j \in 1 .. b - 1 |-> bs[j]]))

\* the buckets are contiguous pieces of the veth list, in order, one per
\* schedule bucket, pairwise disjoint
Contiguous(bs) ==
    /\ Len(bs) = Len(task.partition)
    /\ LET all == Concat(bs)
       IN /\ Len(all) <= Len(task.instances)
          /\ all = SubSeq(task.instances, 1, Len(all))

Smaller(a, b) == IF a < b THEN a ELSE b

\* C28 as stated: APPLY splits the veth list, in order, into contiguous
\* pairwise disjoint buckets, one per schedule bucket, and bucket b holds
\* ceil(ratio_b * N) veths.
C28_BucketsCeil ==
    Applied_Once =>
        /\ Contiguous(TaskBuckets)
        /\ \A b \in DOMAIN TaskBuckets :
               Len(TaskBuckets[b]) = CeilOf(task.partition[b], Len(task.instances))

\* C28, amended: APPLY splits the veth list, in order, into contiguous
\* pairwise disjoint buckets, one per schedule bucket; bucket b holds the next
\* ceil(ratio_b * N) veths, or all that are left when fewer are left; every
\* veth is in a bucket.
C28_BucketsCeilOfRest ==
    Applied_Once =>
        /\ Contiguous(TaskBuckets)
        /\ Concat(TaskBuckets) = task.instances
        /\ \A b \in DOMAIN TaskBuckets :
               Len(TaskBuckets[b]) =
                   Smaller(CeilOf(task.partition[b], Len(task.instances)),
                           Len(task.instances) - TakenBefore(TaskBuckets, b))

\* APPLY has run on three veths with the schedule 0.5 0.5: the second
\* bucket holds the one veth the first has left
C28_Witness ==
    /\ Applied_Once
    /\ task.partition = <<2, 2>>
    /\ Len(task.instances) = 3
    /\ Len(TaskBuckets[1]) = 2 /\ Len(TaskBuckets[2]) = 1

\* C29: REVERT deletes the remembered rules and only those, and a deletion
\* that fails does not make the agent forget a rule: whenever a DROP rule of
\* the agent is installed after a REVERT, the agent still remembers its pair.
C29_NoRuleForgotten ==
    LastCall[1] = "revert" =>
        \A x \in DOMAIN rules : rules[x] > 0 => x \in task.enabled

\* APPLY and REVERT take turns in the log, APPLY first
Alternating ==
    \A p \in DOMAIN plog : plog[p][1] = (IF p % 2 = 1 THEN "apply" ELSE "revert")

CallsNow(verb) == Len(plog') = Len(plog) + 1 /\ plog'[Len(plog')][1] = verb

\* C30: the agent alternates APPLY and REVERT: an APPLY is made only from
\* IDLE when the interval has elapsed with no stop signal pending, a REVERT
\* only from ACTIVE, i.e. after an APPLY and never twice in a row; when the
\* stop signal is received during the IDLE sleep the agent exits and
\* installs no rule.
C30_ApplyRevertAlternate ==
    [][/\ Alternating'
       /\ CallsNow("apply") => ppc = "idle" /\ sender # "sent" /\ ppc' = "active"
       /\ CallsNow("revert") => ppc = "active" /\ LastCall[1] = "apply" /\ ppc' = "idle"
       /\ (ppc = "idle" /\ sender = "sent" /\ ppc' # ppc) =>
              ppc' = "exited" /\ rules' = rules /\ plog' = plog /\ task' = task]_vars

\* two full cycles of APPLY and REVERT, then a stop during the IDLE sleep
C30_Witness ==
    /\ Len(plog) = 4
    /\ ppc = "exited"
    /\ \E x \in DOMAIN plog : plog[x] = <<"apply", TRUE>>

\* C31: once Background::stop has sent the stop signal, the agent thread
\* exits and the join in stop returns, whether the signal was sent during
\* the IDLE sleep, apply(), the ACTIVE sleep or revert().
C31_StopTerminates == (stopper = "joining") ~> (stopper = "returned")

\* the stop signal is in the channel while the agent thread is inside
\* apply(), which does not look at the channel
C31_Witness == stopper = "joining" /\ sender = "sent" /\ ppc = "apply"

\* C32: a failure of the partition agent's apply() or revert() is
\* published on the error bus, where the controller's select can observe
\* it: once a call of the agent has failed, the bus has held a message (the
\* agent is given no sender: it shares no variable of the worker).
C32_PartitionFailurePublished ==
    (\E i \in 1 .. Len(plog) : ~plog[i][2]) => (bus > 0 \/ results > 0)

LaunchFailed == HistHas(Ret("supervisor::launch", FALSE))

\* the position of the first entry e of the log, 0 when there is none
PosOf(e) ==
    IF HistHas(e) THEN CHOOSE p \in DOMAIN hist :
                         hist[p] = e /\ \A q \in 1 .. p - 1 : hist[q] # e
    ELSE 0

\* C33: when supervisor::launch fails at child k, the children that were
\* spawned are exactly those of smaller index, all of them are in the
\* running map when launch returns, and spawn_worker then calls
\* supervisor::stop on them (each is sent a kill and waited for) before
\* core::cleanup.
C33_FailedLaunchStopsSpawned ==
    LaunchFailed =>
      /\ \E k \in DOMAIN commands : DOMAIN procs = {i \in DOMAIN commands : i < k}
      /\ wpc \in {"stop", "stop_wait", "cleanup", "done"}
      /\ wpc \in {"stop", "stop_wait"} => DOMAIN running = DOMAIN procs
      /\ wpc \in {"stop_wait", "cleanup", "done"} =>
            \A i \in DOMAIN procs : procs[i].killAttempted
      /\ wpc \in {"cleanup", "done"} =>
            /\ \A i \in DOMAIN procs : procs[i].waited
            /\ running = EmptyMap
      /\ wpc = "done" =>
            /\ PosOf(Ret("supervisor::launch", FALSE)) < PosOf(Call("supervisor::stop"))
            /\ PosOf(Ret("supervisor::stop", TRUE)) < PosOf(Call("core::cleanup"))

\* the launch of the second child failed; the first was stopped and the
\* teardown has run
C33_Witness ==
    /\ LaunchFailed /\ wpc = "done"
    /\ DOMAIN commands = {0, 1} /\ DOMAIN procs = {0}
    /\ procs[0].killAttempted /\ procs[0].waited
    /\ HistHas(Call("core::cleanup"))

\* C34: a core::deploy called directly after a core::deploy that returned
\* Ok issues no kernel operation and returns Ok: its return follows its
\* call in the log with no verb in between.
C34_SecondDeployIsNoop ==
    \A p \in 1 .. Len(hist) - 1 :
        hist[p] = Ret("core::deploy", TRUE) /\ hist[p + 1] = Call("core::deploy")
        => /\ p + 2 <= Len(hist)
           /\ hist[p + 2] = Ret("core::deploy", TRUE)

\* peek of either heap of the actor is an entry with the earliest
\* timestamp of that heap
PeekIsMin ==
    \A heap \in {to_pause, to_start} :
        \A e \in Peek(heap), f \in heap : e.timestamp <= f.timestamp

\* the timestamp of the entry the actor took last, from whichever heap
LastTaken(last) == IF last.heap = "none" THEN 0 ELSE last[last.heap]

\* C35 as stated: peek returns an entry with the earliest timestamp of its
\* heap, and the actor takes the scheduled tasks in non-decreasing
\* deadline order.
C35_DeadlineOrder ==
    [](PeekIsMin) /\ [][LastTaken(alast') >= LastTaken(alast)]_vars

\* C35, amended: peek returns an entry with the earliest timestamp of its
\* heap, and the entries the actor takes from one heap have non-decreasing
\* timestamps.
C35_PeekIsEarliest ==
    [](PeekIsMin) /\ [][alast'.pause >= alast.pause /\ alast'.start >= alast.start]_vars

\* the actor has taken the earlier of two entries of to_pause and the
\* later one is still in the heap, with a timestamp of its own
C35_Witness ==
    /\ alast.heap = "pause" /\ alast.pause > 0
    /\ \E e \in to_pause, f \in to_pause :
         /\ e.timestamp < f.timestamp
         /\ alast.pause <= e.timestamp
         /\ Peek(to_pause) = {e}

\* the teardown of Env::run has taken task t out of Env.tasks and called
\* its stop
StoppedByRun(t) == rpc \in {"stop_tasks", "done"} /\ t \notin tasks

\* C40: once the teardown of Env::run has stopped a task, no step starts a
\* process of that task: its number of live processes does not grow and
\* its process field does not become Some again.
C40_NoStartAfterTeardown ==
    [][\A t \in DOMAIN tproc :
          StoppedByRun(t) =>
              /\ tproc'[t].live <= tproc[t].live
              /\ tproc'[t].process => tproc[t].process]_vars

\* the last call of the log is a core::cleanup in which every revert
\* succeeded
CleanupAllOk ==
    /\ Len(hist) > 0 /\ hist[Len(hist)] = Ret("core::cleanup", TRUE)
    /\ LET call == CHOOSE p \in DOMAIN hist :
                     /\ hist[p] = Call("core::cleanup")
                     /\ \A q \in p + 1 .. Len(hist) : hist[q] # Call("core::cleanup")
       IN \A q \in call + 1 .. Len(hist) : hist[q][4] = "ok"

\* C36: after a core::cleanup in which every revert succeeded, every entry
\* of the plan (bridges, vxlan, veth, qdisc) is Pending.
C36_CleanupResetsPlan ==
    CleanupAllOk =>
        \A field \in {"bridges", "vxlan", "veth", "qdisc"} :
            \A k \in DOMAIN data[field] : data[field][k].state = Pending

\* C37: every plan of core::generate that holds a vxlan also holds bridge
\* 0, the bridge deploy enslaves the vxlan to.
C37_VxlanHasBridge ==
    gout.status = "ok" =>
        \A h \in DOMAIN gout.plans :
            DOMAIN gout.plans[h].vxlan # {} => 0 \in DOMAIN gout.plans[h].bridges

\* the worker threads that are executing
Alive == {i \in DOMAIN threads : threads[i].state = "running"}

\* the step is the handling of a request by handler h
Served(h) == nreq' = nreq + 1 /\ resp'[1] = h

\* a worker_run or set_network_state step acts only on a Pending worker
\* and otherwise answers CONFLICT and changes nothing
RefusedUnlessPending ==
    (Served("worker_run") \/ Served("set_network_state")) =>
        IF status(worker, threads) = "Pending"
        THEN resp'[2] = "OK"
        ELSE /\ resp'[2] = "CONFLICT"
             /\ worker' = worker /\ threads' = threads
             /\ state_data' = state_data

\* a step that spawns a thread spawns one, and none is alive then
SpawnsWhenNoneAlive ==
    Len(threads') # Len(threads) => (Len(threads') = Len(threads) + 1 /\ Alive = {})

\* a step that replaces the plan finds no worker
PlanKeptWhileWorker ==
    state_data' # state_data => (worker.handle = 0 /\ Alive = {})

\* C38: worker_run and set_network_state act only on a Pending worker and
\* otherwise answer CONFLICT and change neither the worker, the threads nor
\* the stored plan; at most one worker thread is alive at any time, and the
\* stored plan changes only while no worker thread exists.
C38_OnlyWhenPending ==
    /\ [](Cardinality(Alive) <= 1)
    /\ [][RefusedUnlessPending /\ SpawnsWhenNoneAlive /\ PlanKeptWhileWorker]_vars

\* a second worker_run was refused while the first thread runs, and a
\* set_network_state was refused too
C38_Witness ==
    /\ resp = <<"set_network_state", "CONFLICT", "Running">>
    /\ Cardinality(Alive) = 1 /\ Len(threads) = 1 /\ nreq >= 3

\* C39: when a status query answers Running (the status of the worker is
\* Running), the thread of its handle is executing.
C39_RunningMeansExecuting ==
    status(worker, threads) = "Running" => worker.handle \in Alive

====
